---- MODULE Spec2Model ----
(***************************************************************************)
(* Request dispatch pipeline of the go-shopping API gateway:               *)
(* router dispatch, Panic Guard, Correlation Stamper, Access Logger, CORS  *)
(* Policy, Auth Gate, Upstream Proxy and the 404/405 fallback handlers.    *)
(*                                                                         *)
(* Strings the code inspects character by character (the Authorization    *)
(* header, tokens, principal ids) are sequences of one-character strings.  *)
(* A URL path is the sequence of its segments: "/health" is <<"health">>,  *)
(* "/health/" is <<"health", "">> and "/" is <<"">>, so that equality of   *)
(* paths is equality of the path strings.                                  *)
(***************************************************************************)
EXTENDS Integers, Sequences, FiniteSets, TLC

(* ------------------------------ bounds --------------------------------- *)

\* number of requests the gateway accepts in one behaviour
MaxServed == 2

\* length of the longest bearer token tried
MaxTokLen == 11

(* --------------------------- program constants ------------------------- *)

StatusOK == 200
StatusNoContent == 204
StatusMovedPermanently == 301
StatusTemporaryRedirect == 307
StatusUnauthorized == 401
StatusNotFound == 404
StatusMethodNotAllowed == 405
StatusInternalServerError == 500

\* validateToken: tokens shorter than this are rejected
MinTokenLen == 10

\* validateToken: the principal id carries this many leading token characters
PrincipalPrefixLen == 8

\* gin.New() leaves Engine.HandleMethodNotAllowed at its default
HandleMethodNotAllowed == FALSE

\* gin.New() sets Engine.RedirectTrailingSlash
RedirectTrailingSlash == TRUE

(* ------------------------------ strings -------------------------------- *)

Alphabet == <<"a", "b", "c", "d", "e", "f", "g", "h", "i", "j", "k", "l", "m">>

\* the token of length n tried by the model
Token(n) == [i \in 1..n |-> Alphabet[((i - 1) % Len(Alphabet)) + 1]]

Bearer == <<"B", "e", "a", "r", "e", "r">>

UserPrefix == <<"u", "s", "e", "r", "-">>

\* strings.Split(s, sep) for a one-character separator
RECURSIVE SplitFrom(_, _, _, _)
SplitFrom(s, sep, i, cur) ==
    IF i > Len(s) THEN <<cur>>
    ELSE IF s[i] = sep THEN <<cur>> \o SplitFrom(s, sep, i + 1, <<>>)
    ELSE SplitFrom(s, sep, i + 1, Append(cur, s[i]))

Split(s, sep) == SplitFrom(s, sep, 1, <<>>)

(* ------------------------------ inputs --------------------------------- *)

Methods == {"GET", "POST", "PUT", "DELETE", "PATCH", "OPTIONS"}

HealthPath == <<"health">>
LoginPath == <<"api", "v1", "auth", "login">>
RegisterPath == <<"api", "v1", "auth", "register">>
ProductsPath == <<"api", "v1", "products">>

Paths ==
    { HealthPath, Append(HealthPath, ""), <<"nope">>,
      LoginPath, RegisterPath,
      ProductsPath, Append(ProductsPath, ""), Append(ProductsPath, "123") }

TokLens == {0, 3, MinTokenLen - 1, MinTokenLen, MaxTokLen}

\* Authorization header values; <<>> is the absent (or empty) header
AuthHeaders ==
    { <<>>, Bearer }
    \cup { Bearer \o <<" ">> \o Token(n) : n \in TokLens }
    \cup { <<"B", "a", "s", "i", "c", " ">> \o Token(MinTokenLen),
           Bearer \o <<" ", " ">> \o Token(MinTokenLen) }

\* X-Request-ID header values; <<>> is the absent (or empty) header
NoID == <<>>
RequestIDs == { NoID, <<"client", 7>> }

\* raw query strings
Queries == { "", "q=1" }

\* Origin header: absent, or a cross-origin value
Origins == { "", "http://shop.example" }

\* what an upstream can answer
UpstreamStatuses == {200, 401, 503}
Payloads == { <<"x">>, <<"x", "y">> }

Slots == {1, 2}

\* the slots the sequential specification serves requests in
SeqSlots == {1}

(* --------------------------- response bodies --------------------------- *)

NoPath == <<>>

\* gin.H{"error": .., "code": ..} with the optional "method" and "path" keys
Envelope(err, code, method, path) ==
    [kind |-> "envelope", error |-> err, code |-> code, method |-> method,
     path |-> path, details |-> "", payload |-> <<>>]

HealthBody ==
    [kind |-> "health", error |-> "", code |-> 0, method |-> "",
     path |-> NoPath, details |-> "", payload |-> <<>>]

\* bytes relayed from an upstream
RawBody(bytes) ==
    [kind |-> "upstream", error |-> "", code |-> 0, method |-> "",
     path |-> NoPath, details |-> "", payload |-> bytes]

\* gin's default404Body, written by serveError
DefaultNotFoundBody ==
    [kind |-> "plain", error |-> "404 page not found", code |-> 0, method |-> "",
     path |-> NoPath, details |-> "", payload |-> <<>>]

(* --------------------------- pkg/errors -------------------------------- *)

\* a plain Go error (not an *AppError) carrying a fault description
PlainError(text) ==
    [isApp |-> FALSE, Code |-> 0, Message |-> text, Details |-> "", Internal |-> ""]

NoError == PlainError("")

NewUnauthorizedError(message) ==
    [isApp |-> TRUE, Code |-> StatusUnauthorized, Message |-> message,
     Details |-> "", Internal |-> ""]

\* Internal keeps the wrapped error's text; it is tagged json:"-"
NewInternalError(message, err) ==
    [isApp |-> TRUE, Code |-> StatusInternalServerError, Message |-> message,
     Details |-> "", Internal |-> err.Message]

\* ErrorResponse, had it copied the wrapped error's text into "details"
ErrorResponse_LeakInternal(err) ==
    IF err.isApp
    THEN [status |-> err.Code,
          body |-> [Envelope(err.Message, err.Code, "", NoPath)
                        EXCEPT !.details = err.Internal]]
    ELSE [status |-> StatusInternalServerError,
          body |-> Envelope("Internal server error", StatusInternalServerError,
                            "", NoPath)]

\* the (status, body) pair ErrorResponse returns
ErrorResponse(err) ==
    IF err.isApp
    THEN [status |-> err.Code,
          body |-> [Envelope(err.Message, err.Code, "", NoPath)
                        EXCEPT !.details = err.Details]]
    ELSE [status |-> StatusInternalServerError,
          body |-> Envelope("Internal server error", StatusInternalServerError,
                            "", NoPath)]

(* --------------------------- middleware/auth.go ------------------------ *)

publicEndpoints == <<LoginPath, RegisterPath, HealthPath>>

\* isPublicEndpoint, had its loop stopped one entry short
isPublicEndpoint_ShortLoop(path) ==
    \E i \in 1..(Len(publicEndpoints) - 1) : path = publicEndpoints[i]

isPublicEndpoint(path) ==
    \E i \in 1..Len(publicEndpoints) : path = publicEndpoints[i]

\* validateToken, had its length check been off by one
validateToken_OffByOne(tokenString, jwtSecret) ==
    IF tokenString = <<>>
    THEN [userID |-> <<>>, err |-> NewUnauthorizedError("Empty token")]
    ELSE IF Len(tokenString) < MinTokenLen - 1
    THEN [userID |-> <<>>, err |-> NewUnauthorizedError("Invalid token format")]
    ELSE [userID |-> UserPrefix \o SubSeq(tokenString, 1, PrincipalPrefixLen),
          err |-> NoError]

validateToken(tokenString, jwtSecret) ==
    IF tokenString = <<>>
    THEN [userID |-> <<>>, err |-> NewUnauthorizedError("Empty token")]
    ELSE IF Len(tokenString) < MinTokenLen
    THEN [userID |-> <<>>, err |-> NewUnauthorizedError("Invalid token format")]
    ELSE [userID |-> UserPrefix \o SubSeq(tokenString, 1, PrincipalPrefixLen),
          err |-> NoError]

\* What one run of the AuthMiddleware handler decides for a request:
\* the gate's state, the response it writes (if any), the warning it logs
\* and the principal it stores.
GateDecision(gate, status, err, warn, userID) ==
    [gate |-> gate, status |-> status, error |-> err, warn |-> warn,
     userID |-> userID]

\* AuthMiddleware, had it only asked for at least two parts
AuthDecision_LooseSplit(path, authHeader, jwtSecret) ==
    IF isPublicEndpoint(path)
    THEN GateDecision("Public", 0, "", FALSE, <<>>)
    ELSE IF authHeader = <<>>
    THEN GateDecision("Rejected", StatusUnauthorized,
                      "Authorization header required", FALSE, <<>>)
    ELSE LET parts == Split(authHeader, " ") IN
         IF Len(parts) < 2 \/ parts[1] # Bearer
         THEN GateDecision("Rejected", StatusUnauthorized,
                           "Invalid authorization header format", FALSE, <<>>)
         ELSE LET v == validateToken(parts[2], jwtSecret) IN
              IF v.err # NoError
              THEN GateDecision("Rejected", StatusUnauthorized,
                                "Invalid or expired token", TRUE, <<>>)
              ELSE GateDecision("Admitted", 0, "", FALSE, v.userID)

AuthDecision(path, authHeader, jwtSecret) ==
    IF isPublicEndpoint(path)
    THEN GateDecision("Public", 0, "", FALSE, <<>>)
    ELSE IF authHeader = <<>>
    THEN GateDecision("Rejected", StatusUnauthorized,
                      "Authorization header required", FALSE, <<>>)
    ELSE LET parts == Split(authHeader, " ") IN
         IF Len(parts) # 2 \/ parts[1] # Bearer
         THEN GateDecision("Rejected", StatusUnauthorized,
                           "Invalid authorization header format", FALSE, <<>>)
         ELSE LET v == validateToken(parts[2], jwtSecret) IN
              IF v.err # NoError
              THEN GateDecision("Rejected", StatusUnauthorized,
                                "Invalid or expired token", TRUE, <<>>)
              ELSE GateDecision("Admitted", 0, "", FALSE, v.userID)

(* --------------------------- router (main.go) -------------------------- *)

GlobalMiddleware == <<"Recovery", "RequestID", "Logger", "CORS">>

\* router.GET / group.POST ... registrations: method, path pattern, handlers
Route(method, pattern, handlers) ==
    [method |-> method, pattern |-> pattern, handlers |-> handlers]

HealthChain == GlobalMiddleware \o <<"HealthCheck">>

AuthChain == GlobalMiddleware \o <<"AuthProxy">>

\* the products routes, had protected.Use(AuthMiddleware) been left out
ProductsChain_Ungated == GlobalMiddleware \o <<"ProductsProxy">>

ProductsChain == GlobalMiddleware \o <<"Auth", "ProductsProxy">>

Routes ==
    { Route("GET", HealthPath, HealthChain),
      Route("POST", RegisterPath, AuthChain),
      Route("POST", LoginPath, AuthChain),
      Route("GET", ProductsPath, ProductsChain),
      Route("GET", Append(ProductsPath, ":id"), ProductsChain),
      Route("POST", ProductsPath, ProductsChain),
      Route("PUT", Append(ProductsPath, ":id"), ProductsChain),
      Route("DELETE", Append(ProductsPath, ":id"), ProductsChain) }

\* router.NoRoute / router.NoMethod
allNoRoute == GlobalMiddleware \o <<"NotFound">>
allNoMethod == GlobalMiddleware \o <<"MethodNotAllowed">>

\* a path pattern matches a path segment by segment; ":id" takes any
\* non-empty segment
Matches(pattern, path) ==
    /\ Len(pattern) = Len(path)
    /\ \A i \in 1..Len(pattern) :
          IF pattern[i] = ":id" THEN path[i] # "" ELSE pattern[i] = path[i]

\* the routes of one method tree that hold handlers for the path
getValue(method, path) ==
    { rt \in Routes : rt.method = method /\ Matches(rt.pattern, path) }

\* the path with its trailing slash removed, or added
TrailingSlashVariant(path) ==
    IF path[Len(path)] = "" THEN SubSeq(path, 1, Len(path) - 1)
    ELSE Append(path, "")

\* Engine.handleHTTPRequest: the handler chain and the initial status of the
\* response writer, or the redirect the engine answers by itself
Dispatched(kind, handlers, status, location) ==
    [kind |-> kind, handlers |-> handlers, status |-> status,
     location |-> location]

handleHTTPRequest(method, path) ==
    IF getValue(method, path) # {}
    THEN Dispatched("route", (CHOOSE rt \in getValue(method, path) : TRUE).handlers,
                    StatusOK, NoPath)
    ELSE IF /\ RedirectTrailingSlash
            /\ path # <<"">>
            /\ getValue(method, TrailingSlashVariant(path)) # {}
    THEN Dispatched("redirect", <<>>,
                    IF method = "GET" THEN StatusMovedPermanently
                    ELSE StatusTemporaryRedirect,
                    TrailingSlashVariant(path))
    ELSE IF /\ HandleMethodNotAllowed
            /\ \E m \in Methods \ {method} : getValue(m, path) # {}
    THEN Dispatched("nomethod", allNoMethod, StatusMethodNotAllowed, NoPath)
    ELSE Dispatched("noroute", allNoRoute, StatusNotFound, NoPath)

(* --------------------------- routers of the backends -------------------- *)

\* auth-service, setupRouter
AuthServiceRoutes ==
    { Route("GET", <<"health">>, <<"AuthHandler.HealthCheck">>),
      Route("POST", <<"register">>, <<"AuthHandler.Register">>),
      Route("POST", <<"login">>, <<"AuthHandler.Login">>) }

\* product-service, main
ProductServiceRoutes ==
    { Route("GET", <<"api", "v1", "health">>, <<"health">>),
      Route("GET", <<"api", "v1", "products">>, <<"GetAllProducts">>),
      Route("GET", <<"api", "v1", "products", ":id">>, <<"GetProduct">>),
      Route("POST", <<"api", "v1", "products">>, <<"CreateProduct">>),
      Route("PUT", <<"api", "v1", "products", ":id">>, <<"UpdateProduct">>),
      Route("DELETE", <<"api", "v1", "products", ":id">>, <<"DeleteProduct">>) }

\* the handlers the backend's router finds for a method and a path
BackendHandlers(routes, method, path) ==
    { rt.handlers : rt \in { x \in routes : /\ x.method = method
                                              /\ Matches(x.pattern, path) } }

(* --------------------------- configuration ----------------------------- *)

\* config.AppConfig.Auth.JWTSecret
JWTSecret == "secret"

\* config.AppConfig.Services.{Auth,Products}.BaseURL
AuthBaseURL == "http://auth-service"
ProductsBaseURL == "http://product-service"

\* config.AppConfig.Services.{Auth,Products}.Timeout, in seconds
AuthTimeout == "services.auth.timeout"
ProductsTimeout == "services.products.timeout"

\* cors.allowed_origins defaults to ["*"]
AllowAllOrigins == TRUE

(* --------------------------- response writer --------------------------- *)

\* gin's responseWriter after reset, with the status the engine starts from
NewWriter(status) ==
    [status |-> status, written |-> FALSE, body |-> <<>>, requestID |-> NoID,
     allowOrigin |-> "", location |-> NoPath, closed |-> FALSE]

\* c.JSON(code, obj): the status is set unless the header is already out
JSON(wr, code, obj) ==
    IF wr.written THEN [wr EXCEPT !.body = Append(@, obj)]
    ELSE [wr EXCEPT !.status = code, !.written = TRUE, !.body = Append(@, obj)]

\* c.AbortWithStatus(code)
AbortWithStatus(wr, code) ==
    IF wr.written THEN wr ELSE [wr EXCEPT !.status = code, !.written = TRUE]

\* responseWriter.WriteHeaderNow()
WriteHeaderNow(wr) == [wr EXCEPT !.written = TRUE]

(* --------------------------- log records ------------------------------- *)

LogRec(level, msg, url, rq, status, fault, body, requestID) ==
    [level |-> level, msg |-> msg, url |-> url, method |-> rq.method, path |-> rq.path,
     query |-> rq.query, status |-> status, fault |-> fault, body |-> body,
     requestID |-> requestID]

(* --------------------------- handler/proxy.go -------------------------- *)

TargetOf(handler) ==
    IF handler = "AuthProxy" THEN AuthBaseURL ELSE ProductsBaseURL

TimeoutOf(handler) ==
    IF handler = "AuthProxy" THEN AuthTimeout ELSE ProductsTimeout

\* an upstream response: status and a body stream read from position pos
Response(status, data) == [status |-> status, data |-> data, pos |-> 0]

\* io.ReadAll(resp.Body): the unread bytes; the stream is left at its end
ReadAll(resp) == SubSeq(resp.data, resp.pos + 1, Len(resp.data))

Drained(resp) == [resp EXCEPT !.pos = Len(resp.data)]

\* io.NopCloser(bytes.NewReader(body))
NewReader(resp, body) == [resp EXCEPT !.data = body, !.pos = 0]

\* ModifyResponse, had it not put the body back after reading it
ModifyResponse_NoRestore(resp, targetURL, rq, readOK) ==
    LET info == LogRec("info", "Service response", targetURL, rq, resp.status, "",
                       <<>>, NoID)
    IN
    IF resp.status >= 400
    THEN IF ~readOK
         THEN [resp |-> Drained(resp), logs |-> <<info>>,
               err |-> NewInternalError("Failed to read error response",
                                        PlainError("unexpected EOF"))]
         ELSE [resp |-> Drained(resp),
               logs |-> <<info, LogRec("error", "Application error", targetURL, rq,
                                       resp.status, "service returned error",
                                       ReadAll(resp), NoID)>>,
               err |-> NoError]
    ELSE [resp |-> resp, logs |-> <<info>>, err |-> NoError]

\* proxy.ModifyResponse: the response handed on, the records logged and the
\* error returned; readOK tells whether the body can be read to its end
ModifyResponse(resp, targetURL, rq, readOK) ==
    LET info == LogRec("info", "Service response", targetURL, rq, resp.status, "",
                       <<>>, NoID)
    IN
    IF resp.status >= 400
    THEN IF ~readOK
         THEN [resp |-> Drained(resp), logs |-> <<info>>,
               err |-> NewInternalError("Failed to read error response",
                                        PlainError("unexpected EOF"))]
         ELSE LET body == ReadAll(resp) IN
              [resp |-> NewReader(resp, body),
               logs |-> <<info, LogRec("error", "Application error", targetURL, rq,
                                       resp.status, "service returned error",
                                       body, NoID)>>,
               err |-> NoError]
    ELSE [resp |-> resp, logs |-> <<info>>, err |-> NoError]

\* the ErrorHandler, had it answered 502 Bad Gateway around the same envelope
ErrorHandler_BadGateway(wr, targetURL, rq, err) ==
    LET er == ErrorResponse(NewInternalError("Service unavailable", err)) IN
    [w |-> IF wr.written THEN [wr EXCEPT !.body = Append(@, er.body)]
           ELSE [wr EXCEPT !.status = 502, !.written = TRUE,
                           !.body = Append(@, er.body)],
     logs |-> <<LogRec("error", "Application error", targetURL, rq, 0, err.Message,
                       <<>>, NoID)>>]

\* proxy.ErrorHandler: logs the fault and writes the normalized envelope
ErrorHandler(wr, targetURL, rq, err) ==
    LET er == ErrorResponse(NewInternalError("Service unavailable", err)) IN
    [w |-> IF wr.written THEN [wr EXCEPT !.body = Append(@, er.body)]
           ELSE [wr EXCEPT !.status = er.status, !.written = TRUE,
                           !.body = Append(@, er.body)],
     logs |-> <<LogRec("error", "Application error", targetURL, rq, 0, err.Message,
                       <<>>, NoID)>>]

(* --------------------------- handler/handlers.go ----------------------- *)

\* HealthCheck, had it reported a degraded service with 503
HealthCheck_Degraded(wr, rq) == JSON(wr, 503, HealthBody)

HealthCheck(wr, rq) == JSON(wr, StatusOK, HealthBody)

\* NotFoundHandler, had it left the path out of the envelope
NotFoundHandler_NoPath(wr, rq) ==
    JSON(wr, StatusNotFound,
         Envelope("Endpoint not found", StatusNotFound, "", NoPath))

NotFoundHandler(wr, rq) ==
    JSON(wr, StatusNotFound,
         Envelope("Endpoint not found", StatusNotFound, "", rq.path))

MethodNotAllowedHandler(wr, rq) ==
    JSON(wr, StatusMethodNotAllowed,
         Envelope("Method not allowed", StatusMethodNotAllowed, rq.method, rq.path))

(* --------------------------- middleware/recovery.go -------------------- *)

\* RecoveryMiddleware without the recover() call
RecoveryDefer_NoRecover(wr, rq) ==
    [recovered |-> FALSE, logs |-> <<>>, w |-> wr]

\* the deferred function of RecoveryMiddleware, run when a panic unwinds to
\* it: whether the panic was recovered, the record logged, the writer after
RecoveryDefer(wr, rq) ==
    [recovered |-> TRUE,
     logs |-> <<LogRec("error", "Panic recovered", "", rq, 0, "panic+stack", <<>>, NoID)>>,
     w |-> IF wr.status = 0
           THEN JSON(wr, StatusInternalServerError,
                     Envelope("Internal server error", StatusInternalServerError,
                              "", NoPath))
           ELSE wr]

(* ------------------------------ state ---------------------------------- *)

VARIABLES
    server,     \* lifecycle state of the listening server
    accepted,   \* number of requests accepted so far
    uuids,      \* number of identifiers uuid.New() has produced
    panicked,   \* some request has raised a panic
    pc,         \* per slot: position of the request's handling
    rq,         \* per slot: the inbound request
    disp,       \* per slot: how the engine dispatched the request
    chain,      \* per slot: the handler chain (gin c.handlers)
    idx,        \* per slot: the handler about to run (gin c.index)
    ctx,        \* per slot: keys set in the gin context
    w,          \* per slot: the response writer
    gate,       \* per slot: state of the Auth Gate
    out,        \* per slot: requests sent to upstreams
    up,         \* per slot: what the upstream did with the request
    logs,       \* per slot: log records emitted while handling the request
    trace,      \* per slot: the stages started, in order
    fault,      \* per slot: "none", or what became of a panic
    issued,     \* the identifiers RequestIDMiddleware generated, in order
    main,       \* func main: exit code, how it ended, its log, the drain clock
    users,      \* auth service: the rows of table users
    products,   \* product service: the rows of table products
    clock,      \* product service: the reading of time.Now()
    calls       \* per caller: the call a backend service (or a harness) runs

vars == <<server, accepted, uuids, panicked, pc, rq, disp, chain, idx, ctx, w,
          gate, out, up, logs, trace, fault, issued, main, users, products, clock,
          calls>>

\* the state of the gateway, and that of the services behind it
gateway ==
    <<server, accepted, uuids, panicked, pc, rq, disp, chain, idx, ctx, w, gate, out,
      up, logs, trace, fault, issued, main>>

backend == <<users, products, clock, calls>>

\* the callers whose calls on a backend service may interleave
Callers == {1, 2}

\* a call in progress: the operation, where it stands, its request, what it
\* has read so far and, once it is done, the response
Call(op, at, req, seen, resp) ==
    [op |-> op, at |-> at, req |-> req, seen |-> seen, resp |-> resp]

NoCall == Call("none", "idle", <<>>, <<>>, <<>>)

\* no backend has been called: empty tables, idle callers
BackendIdle ==
    /\ users = {}
    /\ products = {}
    /\ clock = 0
    /\ calls = [c \in Callers |-> NoCall]

\* what became of an outbound call: "response" (status and whole body),
\* "truncated" (status, then the body breaks off), "unreachable", "timeout",
\* "cancelled" (given up because the client went away)
Reply(kind, status, data) == [kind |-> kind, status |-> status, data |-> data]

NoReply == Reply("none", 0, <<>>)

Request(method, path, query, auth, requestID, origin) ==
    [method |-> method, path |-> path, query |-> query, auth |-> auth,
     requestID |-> requestID, origin |-> origin]

NoRequest == Request("", NoPath, "", <<>>, NoID, "")

\* The gin context of a request: the keys set with c.Set, and the state of the
\* request's context.Context: cancelled (the client went away), and, once
\* the proxy has derived the outbound context, its parent, whether it carries
\* a deadline, and whether the inbound body is still being streamed upstream
NoContext ==
    [keys |-> {}, request_id |-> NoID, user_id |-> <<>>, deadline |-> FALSE,
     parent |-> "none", cancelled |-> FALSE, uploading |-> FALSE]

\* func main: the exit code of the process (-1 while it runs), how it came
\* to end, the records main has logged, and the seconds gone since
\* srv.Shutdown was called
MainState(code, cause, records, elapsed) ==
    [code |-> code, cause |-> cause, records |-> records, elapsed |-> elapsed]

MainRunning == MainState(-1, "running", <<>>, 0)

\* the gateway with nothing accepted yet and the server in the given state
GatewayIdle(state) ==
    /\ server = state
    /\ accepted = 0
    /\ uuids = 0
    /\ panicked = FALSE
    /\ pc = [r \in Slots |-> "idle"]
    /\ rq = [r \in Slots |-> NoRequest]
    /\ disp = [r \in Slots |-> "none"]
    /\ chain = [r \in Slots |-> <<>>]
    /\ idx = [r \in Slots |-> 0]
    /\ ctx = [r \in Slots |-> NoContext]
    /\ w = [r \in Slots |-> NewWriter(StatusOK)]
    /\ gate = [r \in Slots |-> "NotRun"]
    /\ out = [r \in Slots |-> <<>>]
    /\ up = [r \in Slots |-> NoReply]
    /\ logs = [r \in Slots |-> <<>>]
    /\ trace = [r \in Slots |-> <<>>]
    /\ fault = [r \in Slots |-> "none"]
    /\ issued = <<>>
    /\ main = MainRunning

\* the state with nothing accepted yet and no backend called
InitWith(state) == GatewayIdle(state) /\ BackendIdle

\* the gateway as it serves: the listener is bound, no signal has come
Init == InitWith("Serving")

(* ------------------------------ actions -------------------------------- *)

\* the handler gin's c.Next() is about to call
Current(r) == chain[r][idx[r]]

Running(r, handler) == pc[r] = "chain" /\ Current(r) = handler

\* c.Next() moves on to the next handler; after the last one, or after
\* c.Abort(), control returns into the Access Logger
Advance(r, aborted) ==
    IF aborted \/ idx[r] = Len(chain[r])
    THEN /\ pc' = [pc EXCEPT ![r] = "logger_post"]
         /\ idx' = idx
    ELSE /\ pc' = pc
         /\ idx' = [idx EXCEPT ![r] = idx[r] + 1]

Started(r, stage) == trace' = [trace EXCEPT ![r] = Append(@, stage)]

Logged(r, records) == logs' = [logs EXCEPT ![r] = @ \o records]

\* the server, had srv.Shutdown left the listener open
Accepting_Always(state) == TRUE

\* the listener takes connections while the server serves; srv.Shutdown
\* closes it
Accepting(state) == state = "Serving"

\* Engine.ServeHTTP: take a context, reset it and dispatch the request, which
\* is drawn from the given sets
AcceptFrom(r, methods, paths, queries, auths, ids, origins) ==
    /\ Accepting(server)
    /\ pc[r] = "idle"
    /\ accepted < MaxServed
    /\ \E m \in methods, p \in paths, q \in queries, a \in auths, x \in ids,
          o \in origins :
         LET d == handleHTTPRequest(m, p) IN
         /\ rq' = [rq EXCEPT ![r] = Request(m, p, q, a, x, o)]
         /\ disp' = [disp EXCEPT ![r] = d.kind]
         /\ chain' = [chain EXCEPT ![r] = d.handlers]
         /\ IF d.kind = "redirect"
            THEN /\ w' = [w EXCEPT ![r] =
                            [NewWriter(d.status) EXCEPT !.written = TRUE,
                                                        !.location = d.location]]
                 /\ pc' = [pc EXCEPT ![r] = "done"]
                 /\ idx' = idx
            ELSE /\ w' = [w EXCEPT ![r] = NewWriter(d.status)]
                 /\ pc' = [pc EXCEPT ![r] = "chain"]
                 /\ idx' = [idx EXCEPT ![r] = 1]
    /\ accepted' = accepted + 1
    /\ UNCHANGED <<backend, server, main, issued, uuids, panicked, ctx, gate, out, up,
                   logs, trace, fault>>

Accept(r) ==
    AcceptFrom(r, Methods, Paths, Queries, AuthHeaders, RequestIDs, Origins)

\* RecoveryMiddleware: install the deferred function, call c.Next()
RecoveryMiddleware(r) ==
    /\ Running(r, "Recovery")
    /\ Started(r, "Recovery")
    /\ Advance(r, FALSE)
    /\ UNCHANGED <<backend, server, main, issued, accepted, uuids, panicked, rq, disp,
                   chain, ctx, w, gate, out, up, logs, fault>>

\* uuid.New(): a value no earlier call has returned; n calls came before
NewUUID(n) == <<"uuid", n + 1>>

\* the middleware, had it stamped every request with an identifier of its own
RequestIDFor_AlwaysNew(header, fresh) == fresh

\* the identifier of a request: the X-Request-ID header it came with, or a
\* new one when the header is absent or empty
RequestIDFor(header, fresh) == IF header = NoID THEN fresh ELSE header

RequestIDMiddleware(r) ==
    /\ Running(r, "RequestID")
    /\ LET requestID == RequestIDFor(rq[r].requestID, NewUUID(uuids)) IN
       /\ ctx' = [ctx EXCEPT ![r].keys = @ \cup {"request_id"},
                             ![r].request_id = requestID]
       /\ w' = [w EXCEPT ![r].requestID = requestID]
       /\ uuids' = IF rq[r].requestID = NoID THEN uuids + 1 ELSE uuids
       /\ issued' = IF rq[r].requestID = NoID THEN Append(issued, requestID)
                    ELSE issued
    /\ Started(r, "RequestID")
    /\ Advance(r, FALSE)
    /\ UNCHANGED <<backend, server, main, accepted, panicked, rq, disp, chain, gate,
                   out, up, logs, fault>>

\* GinLogger up to its c.Next()
LoggingMiddleware(r) ==
    /\ Running(r, "Logger")
    /\ Started(r, "Logger")
    /\ Advance(r, FALSE)
    /\ UNCHANGED <<backend, server, main, issued, accepted, uuids, panicked, rq, disp,
                   chain, ctx, w, gate, out, up, logs, fault>>

\* cors.New(...): a request without Origin passes untouched; a preflight is
\* answered 204 and aborted; any other cross-origin request gets its headers
CORSMiddleware(r) ==
    /\ Running(r, "CORS")
    /\ Started(r, "CORS")
    /\ IF rq[r].origin = ""
       THEN /\ w' = w
            /\ Advance(r, FALSE)
       ELSE IF ~AllowAllOrigins
       THEN /\ w' = [w EXCEPT ![r] = AbortWithStatus(@, 403)]
            /\ Advance(r, TRUE)
       ELSE IF rq[r].method = "OPTIONS"
       THEN /\ w' = [w EXCEPT ![r] =
                       AbortWithStatus([@ EXCEPT !.allowOrigin = "*"], StatusNoContent)]
            /\ Advance(r, TRUE)
       ELSE /\ w' = [w EXCEPT ![r].allowOrigin = "*"]
            /\ Advance(r, FALSE)
    /\ UNCHANGED <<backend, server, main, issued, accepted, uuids, panicked, rq, disp,
                   chain, ctx, gate, out, up, logs, fault>>

\* AuthMiddleware, had it stored the principal before checking the token
StorePrincipal_Early(c, d) ==
    [c EXCEPT !.keys = @ \cup {"user_id"}, !.user_id = d.userID]

\* c.Set("user_id", userID): reached only when the gate has admitted
StorePrincipal(c, d) ==
    IF d.gate = "Admitted"
    THEN [c EXCEPT !.keys = @ \cup {"user_id"}, !.user_id = d.userID]
    ELSE c

AuthMiddleware(r) ==
    /\ Running(r, "Auth")
    /\ Started(r, "Auth")
    /\ LET d == AuthDecision(rq[r].path, rq[r].auth, JWTSecret) IN
       /\ gate' = [gate EXCEPT ![r] = d.gate]
       /\ ctx' = [ctx EXCEPT ![r] = StorePrincipal(@, d)]
       /\ IF d.gate = "Rejected"
          THEN /\ w' = [w EXCEPT ![r] =
                          JSON(@, d.status, Envelope(d.error, d.status, "", NoPath))]
               /\ Logged(r, IF d.warn
                            THEN <<LogRec("warn", "Invalid token", "", rq[r], 0, "",
                                          <<>>, NoID)>>
                            ELSE <<>>)
               /\ Advance(r, TRUE)
          ELSE /\ w' = w
               /\ logs' = logs
               /\ Advance(r, FALSE)
    /\ UNCHANGED <<backend, server, main, issued, accepted, uuids, panicked, rq, disp,
                   chain, out, up, fault>>

\* the handlers that answer without an upstream
LocalHandlers == {"HealthCheck", "NotFound", "MethodNotAllowed"}

LocalHandler(r) ==
    /\ pc[r] = "chain"
    /\ Current(r) \in LocalHandlers
    /\ Started(r, Current(r))
    /\ w' = [w EXCEPT ![r] =
               CASE Current(r) = "HealthCheck" -> HealthCheck(@, rq[r])
                 [] Current(r) = "NotFound" -> NotFoundHandler(@, rq[r])
                 [] OTHER -> MethodNotAllowedHandler(@, rq[r])]
    /\ Advance(r, FALSE)
    /\ UNCHANGED <<backend, server, main, issued, accepted, uuids, panicked, rq, disp,
                   chain, ctx, gate, out, up, logs, fault>>

Proxies == {"AuthProxy", "ProductsProxy"}

\* the headers httputil.ReverseProxy sets on the outbound request itself:
\* the client's address, appended to X-Forwarded-For
ProxyAddedHeaders == {"X-Forwarded-For"}

\* the proxy, had its director cut the /api/v1 prefix off the path
Outbound_StripPrefix(target, req) ==
    [target |-> target, method |-> req.method,
     path |-> SubSeq(req.path, 3, Len(req.path)), query |-> req.query,
     auth |-> req.auth, requestID |-> req.requestID, origin |-> req.origin,
     added |-> ProxyAddedHeaders, principal |-> <<>>]

\* the request httputil.ReverseProxy sends: a clone of the inbound request
\* with the target's scheme and host, the inbound headers (Authorization,
\* X-Request-ID and Origin as they came in) and the headers the proxy adds;
\* nothing of the gin context (request_id, user_id) goes out
Outbound(target, req) ==
    [target |-> target, method |-> req.method, path |-> req.path,
     query |-> req.query, auth |-> req.auth, requestID |-> req.requestID,
     origin |-> req.origin, added |-> ProxyAddedHeaders, principal |-> <<>>]

\* the handler, had it kept the inbound context without a timeout
WithTimeout_None(parent, timeout) == FALSE

\* context.WithTimeout(parent, timeout): does the derived context carry a
\* deadline of its own
WithTimeout(parent, timeout) == TRUE

\* the handler, had it derived the outbound context from context.Background()
ParentContext_Background(inbound) == "background"

\* the parent of the outbound context: c.Request.Context(), which net/http
\* cancels when the client's connection goes away
ParentContext(inbound) == inbound

\* ServiceProxy.Handler up to the round trip of p.proxy.ServeHTTP; the clock
\* of the timeout starts here, and the inbound body, when the client has not
\* sent all of it yet, is streamed to the upstream during the round trip
ProxyHandler(r) ==
    /\ pc[r] = "chain"
    /\ Current(r) \in Proxies
    /\ Started(r, "Proxy")
    /\ Logged(r, <<LogRec("info", "Proxying request", TargetOf(Current(r)), rq[r], 0,
                          "", <<>>, NoID)>>)
    /\ out' = [out EXCEPT ![r] = Append(@, Outbound(TargetOf(Current(r)), rq[r]))]
    /\ \E uploading \in BOOLEAN :
         ctx' = [ctx EXCEPT ![r].deadline = WithTimeout(@, TimeoutOf(Current(r))),
                            ![r].parent = ParentContext("request"),
                            ![r].uploading = uploading]
    /\ pc' = [pc EXCEPT ![r] = "await"]
    /\ UNCHANGED <<backend, server, main, issued, accepted, uuids, panicked, rq, disp,
                   chain, idx, w, gate, up, fault>>

\* "Request completed", logged once p.proxy.ServeHTTP has returned
Completed(r, wr) ==
    LogRec("info", "Request completed", TargetOf(Current(r)), rq[r], wr.status, "",
           <<>>, NoID)

\* the proxy, had it kept the response writer in a field of ServiceProxy,
\* which every request of the route shares
ProxyReturns_SharedWriter(r, wr, records) ==
    /\ w' = [s \in Slots |-> IF pc[s] = "await" THEN wr ELSE w[s]]
    /\ Logged(r, records \o <<Completed(r, wr)>>)
    /\ pc' = [pc EXCEPT ![r] = "logger_post"]
    /\ UNCHANGED <<panicked, fault>>

\* the proxy handler returns; it is the last handler of its chain
ProxyReturns(r, wr, records) ==
    /\ w' = [w EXCEPT ![r] = wr]
    /\ Logged(r, records \o <<Completed(r, wr)>>)
    /\ pc' = [pc EXCEPT ![r] = "logger_post"]
    /\ UNCHANGED <<panicked, fault>>

\* a panic unwinds to RecoveryMiddleware's deferred function; the code after
\* c.Next() in the handlers between is skipped
Unwind(r, wr, records) ==
    LET rec == RecoveryDefer(wr, rq[r]) IN
    /\ panicked' = TRUE
    /\ Logged(r, records \o rec.logs)
    /\ IF rec.recovered
       THEN /\ w' = [w EXCEPT ![r] = rec.w]
            /\ fault' = [fault EXCEPT ![r] =
                           IF wr.written THEN "recovered_late" ELSE "recovered"]
            /\ pc' = [pc EXCEPT ![r] = "finalize"]
       ELSE \* net/http's connection goroutine catches it and drops the connection
            /\ w' = [w EXCEPT ![r] = [wr EXCEPT !.closed = TRUE]]
            /\ fault' = [fault EXCEPT ![r] = "escaped"]
            /\ pc' = [pc EXCEPT ![r] = "done"]

\* the upstream, once it has the whole request, answers with a status and a
\* body; complete tells whether the whole body arrives
UpstreamResponds(r) ==
    /\ pc[r] = "await"
    /\ ~ctx[r].uploading
    /\ \E status \in UpstreamStatuses, data \in Payloads, complete \in BOOLEAN :
         LET url == TargetOf(Current(r))
             mr == ModifyResponse(Response(status, data), url, rq[r], complete)
             relayed == [w[r] EXCEPT !.status = status, !.written = TRUE]
             body == ReadAll(mr.resp)
         IN
         /\ up' = [up EXCEPT ![r] =
                     Reply(IF complete THEN "response" ELSE "truncated", status, data)]
         /\ IF mr.err # NoError
            THEN LET eh == ErrorHandler(w[r], url, rq[r], mr.err) IN
                 ProxyReturns(r, eh.w, mr.logs \o eh.logs)
            ELSE IF complete
            THEN ProxyReturns(r, [relayed EXCEPT !.body = Append(@, RawBody(body))],
                              mr.logs)
            ELSE \* the copy of the body fails: panic(http.ErrAbortHandler)
                 Unwind(r, [relayed EXCEPT !.body =
                               Append(@, RawBody(SubSeq(body, 1, Len(body) - 1)))],
                        mr.logs)
    /\ UNCHANGED <<backend, server, main, issued, accepted, uuids, rq, disp, chain,
                   idx, ctx, gate, out, trace>>

\* the round trip fails: the upstream is unreachable or the connection breaks
UpstreamUnreachable(r) ==
    /\ pc[r] = "await"
    /\ up' = [up EXCEPT ![r] = Reply("unreachable", 0, <<>>)]
    /\ LET eh == ErrorHandler(w[r], TargetOf(Current(r)), rq[r],
                              PlainError("dial tcp: connection refused"))
       IN ProxyReturns(r, eh.w, eh.logs)
    /\ UNCHANGED <<backend, server, main, issued, accepted, uuids, rq, disp, chain,
                   idx, ctx, gate, out, trace>>

\* the deadline of the request's context passes before the upstream answers
UpstreamTimeout(r) ==
    /\ pc[r] = "await"
    /\ ctx[r].deadline
    /\ up' = [up EXCEPT ![r] = Reply("timeout", 0, <<>>)]
    /\ LET eh == ErrorHandler(w[r], TargetOf(Current(r)), rq[r],
                              PlainError("context deadline exceeded"))
       IN ProxyReturns(r, eh.w, eh.logs)
    /\ UNCHANGED <<backend, server, main, issued, accepted, uuids, rq, disp, chain,
                   idx, ctx, gate, out, trace>>

\* the client sends the rest of the request body
ClientUploadEnds(r) ==
    /\ pc[r] = "await"
    /\ ctx[r].uploading
    /\ ctx' = [ctx EXCEPT ![r].uploading = FALSE]
    /\ UNCHANGED <<backend, server, main, issued, accepted, uuids, panicked, pc, rq,
                   disp, chain, idx, w, gate, out, up, logs, trace, fault>>

\* the client closes its connection while the gateway waits on the upstream:
\* net/http cancels the context of the inbound request
ClientDisconnects(r) ==
    /\ pc[r] = "await"
    /\ ~ctx[r].cancelled
    /\ ctx' = [ctx EXCEPT ![r].cancelled = TRUE]
    /\ UNCHANGED <<backend, server, main, issued, accepted, uuids, panicked, pc, rq,
                   disp, chain, idx, w, gate, out, up, logs, trace, fault>>

\* the cancellation reaches the outbound context through its parent: the
\* transport gives the round trip up and the proxy's ErrorHandler runs
UpstreamCancelled(r) ==
    /\ pc[r] = "await"
    /\ ctx[r].cancelled
    /\ ctx[r].parent = "request"
    /\ up' = [up EXCEPT ![r] = Reply("cancelled", 0, <<>>)]
    /\ LET eh == ErrorHandler(w[r], TargetOf(Current(r)), rq[r],
                              PlainError("context canceled"))
       IN ProxyReturns(r, eh.w, eh.logs)
    /\ UNCHANGED <<backend, server, main, issued, accepted, uuids, rq, disp, chain,
                   idx, ctx, gate, out, trace>>

\* a handler behind the Panic Guard panics as it is entered
Panic(r) ==
    /\ pc[r] = "chain"
    /\ idx[r] > 1
    /\ Unwind(r, w[r], <<>>)
    /\ UNCHANGED <<backend, server, main, issued, accepted, uuids, rq, disp, chain,
                   idx, ctx, gate, out, up, trace>>

\* GinLogger after its c.Next()
GinLoggerAfter(r) ==
    /\ pc[r] = "logger_post"
    /\ Logged(r, <<LogRec(IF w[r].status >= 400 THEN "error" ELSE "info",
                          "HTTP request", "", rq[r], w[r].status, "", <<>>,
                          ctx[r].request_id)>>)
    /\ pc' = [pc EXCEPT ![r] = "finalize"]
    /\ UNCHANGED <<backend, server, main, issued, accepted, uuids, panicked, rq, disp,
                   chain, idx, ctx, w, gate, out, up, trace, fault>>

\* the engine after the chain has returned: WriteHeaderNow for a matched
\* route, serveError's default body for an unanswered 404/405
Finalize(r) ==
    /\ pc[r] = "finalize"
    /\ w' = [w EXCEPT ![r] =
               IF @.written THEN @
               ELSE IF disp[r] = "route" THEN WriteHeaderNow(@)
               ELSE IF @.status \in {StatusNotFound, StatusMethodNotAllowed}
               THEN [WriteHeaderNow(@) EXCEPT !.body = <<DefaultNotFoundBody>>]
               ELSE WriteHeaderNow(@)]
    /\ pc' = [pc EXCEPT ![r] = "done"]
    /\ UNCHANGED <<backend, server, main, issued, accepted, uuids, panicked, rq, disp,
                   chain, idx, ctx, gate, out, up, logs, trace, fault>>

\* the response is out; the context goes back to the pool
Release(r) ==
    /\ pc[r] = "done"
    /\ pc' = [pc EXCEPT ![r] = "idle"]
    /\ rq' = [rq EXCEPT ![r] = NoRequest]
    /\ disp' = [disp EXCEPT ![r] = "none"]
    /\ chain' = [chain EXCEPT ![r] = <<>>]
    /\ idx' = [idx EXCEPT ![r] = 0]
    /\ ctx' = [ctx EXCEPT ![r] = NoContext]
    /\ w' = [w EXCEPT ![r] = NewWriter(StatusOK)]
    /\ gate' = [gate EXCEPT ![r] = "NotRun"]
    /\ out' = [out EXCEPT ![r] = <<>>]
    /\ up' = [up EXCEPT ![r] = NoReply]
    /\ logs' = [logs EXCEPT ![r] = <<>>]
    /\ trace' = [trace EXCEPT ![r] = <<>>]
    /\ fault' = [fault EXCEPT ![r] = "none"]
    /\ UNCHANGED <<backend, server, main, issued, accepted, uuids, panicked>>

Next ==
    \E r \in SeqSlots :
        \/ Accept(r)
        \/ RecoveryMiddleware(r)
        \/ RequestIDMiddleware(r)
        \/ LoggingMiddleware(r)
        \/ CORSMiddleware(r)
        \/ AuthMiddleware(r)
        \/ LocalHandler(r)
        \/ ProxyHandler(r)
        \/ UpstreamResponds(r)
        \/ UpstreamUnreachable(r)
        \/ UpstreamTimeout(r)
        \/ ClientUploadEnds(r)
        \/ ClientDisconnects(r)
        \/ UpstreamCancelled(r)
        \/ Panic(r)
        \/ GinLoggerAfter(r)
        \/ Finalize(r)
        \/ Release(r)

Spec == Init /\ [][Next]_vars

(* ---------------- the Auth Gate exercised as a unit --------------------- *)

\* The handler AuthMiddleware returns, run on a request for any path, as a
\* test of the middleware runs it: the gate stands in front of whatever
\* handler the engine dispatched the request to.
MountGate(handlers) ==
    GlobalMiddleware \o <<"Auth">> \o SubSeq(handlers, Len(handlers), Len(handlers))

GatePosition == Len(GlobalMiddleware) + 1

GateInit ==
    /\ server = "Serving"
    /\ accepted = 1
    /\ uuids = 0
    /\ panicked = FALSE
    /\ \E m \in Methods, p \in Paths, q \in Queries, a \in AuthHeaders :
         LET d == handleHTTPRequest(m, p) IN
         /\ d.kind # "redirect"
         /\ pc = [r \in Slots |-> IF r \in SeqSlots THEN "chain" ELSE "idle"]
         /\ rq = [r \in Slots |-> IF r \in SeqSlots
                                  THEN Request(m, p, q, a, NoID, "") ELSE NoRequest]
         /\ disp = [r \in Slots |-> IF r \in SeqSlots THEN d.kind ELSE "none"]
         /\ chain = [r \in Slots |-> IF r \in SeqSlots THEN MountGate(d.handlers)
                                     ELSE <<>>]
         /\ idx = [r \in Slots |-> IF r \in SeqSlots THEN GatePosition ELSE 0]
         /\ w = [r \in Slots |-> IF r \in SeqSlots THEN NewWriter(d.status)
                                 ELSE NewWriter(StatusOK)]
    /\ ctx = [r \in Slots |-> NoContext]
    /\ gate = [r \in Slots |-> "NotRun"]
    /\ out = [r \in Slots |-> <<>>]
    /\ up = [r \in Slots |-> NoReply]
    /\ logs = [r \in Slots |-> <<>>]
    /\ trace = [r \in Slots |-> <<>>]
    /\ fault = [r \in Slots |-> "none"]
    /\ issued = <<>>
    /\ main = MainRunning
    /\ BackendIdle

GateNext == \E r \in SeqSlots : AuthMiddleware(r)

SpecGate == GateInit /\ [][GateNext]_vars

(* ---------------- validateToken exercised as a unit ---------------------- *)

\* the token of length n whose characters start k places into the alphabet
TokenFrom(n, k) == [i \in 1..n |-> Alphabet[((i - 1 + k) % Len(Alphabet)) + 1]]

\* tokens of every length up to the bound, alike and unlike in their
\* leading characters
TokensTried == { TokenFrom(n, k) : n \in 0..MaxTokLen, k \in {0, 1} }

\* values of config.AppConfig.Auth.JWTSecret tried
SecretsTried == {JWTSecret, "other-secret"}

TokenInit ==
    /\ GatewayIdle("Serving")
    /\ users = {}
    /\ products = {}
    /\ clock = 0
    /\ calls \in [Callers -> { Call("validateToken", "called",
                                    [token |-> t, secret |-> k], <<>>, <<>>) :
                               t \in TokensTried, k \in SecretsTried }]

\* a call of validateToken, had it mixed the secret into the principal
TokenCall_Keyed(c) ==
    /\ calls[c].op = "validateToken"
    /\ calls[c].at = "called"
    /\ LET v == validateToken(calls[c].req.token, calls[c].req.secret) IN
       calls' = [calls EXCEPT ![c].at = "returned",
                              ![c].resp =
                                  IF v.err = NoError /\ calls[c].req.secret # JWTSecret
                                  THEN [v EXCEPT !.userID = UserPrefix]
                                  ELSE v]
    /\ UNCHANGED <<gateway, users, products, clock>>

\* userID, err := validateToken(tokenString, jwtSecret)
TokenCall(c) ==
    /\ calls[c].op = "validateToken"
    /\ calls[c].at = "called"
    /\ calls' = [calls EXCEPT ![c].at = "returned",
                              ![c].resp = validateToken(calls[c].req.token,
                                                        calls[c].req.secret)]
    /\ UNCHANGED <<gateway, users, products, clock>>

TokenNext == \E c \in Callers : TokenCall(c)

SpecToken == TokenInit /\ [][TokenNext]_vars

(* ---------------- func main: start, signal, drain, exit ------------------ *)

\* context.WithTimeout(context.Background(), 30*time.Second), in seconds
ShutdownGrace == 30

\* a record main logs
MainRec(level, msg) == [level |-> level, msg |-> msg]

\* the server is at work on the request of r
InFlight(r) == pc[r] \notin {"idle", "done"}

\* the process is gone, and with it whatever it was doing
Halted ==
    /\ pc' = [r \in Slots |-> "idle"]
    /\ rq' = [r \in Slots |-> NoRequest]
    /\ disp' = [r \in Slots |-> "none"]
    /\ chain' = [r \in Slots |-> <<>>]
    /\ idx' = [r \in Slots |-> 0]
    /\ ctx' = [r \in Slots |-> NoContext]
    /\ w' = [r \in Slots |-> NewWriter(StatusOK)]
    /\ gate' = [r \in Slots |-> "NotRun"]
    /\ out' = [r \in Slots |-> <<>>]
    /\ up' = [r \in Slots |-> NoReply]
    /\ logs' = [r \in Slots |-> <<>>]
    /\ trace' = [r \in Slots |-> <<>>]
    /\ fault' = [r \in Slots |-> "none"]

\* the goroutine of main: srv.ListenAndServe() binds the port and serves
ListenAndServe ==
    /\ server = "Starting"
    /\ server' = "Serving"
    /\ main' = [main EXCEPT !.records =
                   Append(@, MainRec("info", "Starting API Gateway"))]
    /\ UNCHANGED <<backend, accepted, uuids, panicked, pc, rq, disp, chain, idx, ctx,
                   w, gate, out, up, logs, trace, fault, issued>>

\* srv.ListenAndServe() fails to bind: logger.Fatal() logs and calls
\* os.Exit(1)
BindFails ==
    /\ server = "Starting"
    /\ server' = "Stopped"
    /\ main' = MainState(1, "bind",
                         main.records \o
                             <<MainRec("info", "Starting API Gateway"),
                               MainRec("fatal", "Failed to start server")>>,
                         main.elapsed)
    /\ Halted
    /\ UNCHANGED <<backend, accepted, uuids, panicked, issued>>

\* SIGINT or SIGTERM arrives: main calls srv.Shutdown under a context that
\* expires after the grace period; the listener is closed
Signal ==
    /\ server \in {"Starting", "Serving"}
    /\ server' = "Draining"
    /\ main' = [main EXCEPT !.records =
                   Append(@, MainRec("info", "Shutting down server..."))]
    /\ UNCHANGED <<backend, accepted, uuids, panicked, pc, rq, disp, chain, idx, ctx,
                   w, gate, out, up, logs, trace, fault, issued>>

\* a second of the grace period passes
Tick ==
    /\ server = "Draining"
    /\ main.elapsed < ShutdownGrace
    /\ main' = [main EXCEPT !.elapsed = @ + 1]
    /\ UNCHANGED <<backend, server, accepted, uuids, panicked, pc, rq, disp, chain,
                   idx, ctx, w, gate, out, up, logs, trace, fault, issued>>

\* srv.Shutdown(ctx): nil once no request is in flight, the context's error
\* once its deadline has passed; it keeps waiting otherwise
Shutdown(inflight, elapsed) ==
    IF ~inflight THEN "nil"
    ELSE IF elapsed >= ShutdownGrace THEN "context deadline exceeded"
    ELSE "waiting"

\* srv.Shutdown has returned: main logs its error, if any, then "Server
\* exited properly", and returns; the deferred record follows and the
\* process exits with the status of a main that returned
ShutdownReturns ==
    LET err == Shutdown(\E r \in Slots : InFlight(r), main.elapsed) IN
    /\ server = "Draining"
    /\ err # "waiting"
    /\ server' = "Stopped"
    /\ main' = MainState(0, IF err = "nil" THEN "drained" ELSE "forced",
                         main.records \o
                             (IF err = "nil" THEN <<>>
                              ELSE <<MainRec("error", "Server forced to shutdown")>>) \o
                             <<MainRec("info", "Server exited properly"),
                               MainRec("info", "Shutting down API Gateway")>>,
                         main.elapsed)
    /\ Halted
    /\ UNCHANGED <<backend, accepted, uuids, panicked, issued>>

\* requests enough to keep the server busy while it drains
AcceptSome(r) ==
    AcceptFrom(r, {"GET"}, {HealthPath, ProductsPath}, {""},
               {<<>>, Bearer \o <<" ">> \o Token(MinTokenLen)}, {NoID}, {""})

LifeNext ==
    \/ ListenAndServe
    \/ BindFails
    \/ Signal
    \/ Tick
    \/ ShutdownReturns
    \/ \E r \in SeqSlots :
          \/ AcceptSome(r)
          \/ RecoveryMiddleware(r)
          \/ RequestIDMiddleware(r)
          \/ LoggingMiddleware(r)
          \/ CORSMiddleware(r)
          \/ AuthMiddleware(r)
          \/ LocalHandler(r)
          \/ ProxyHandler(r)
          \/ UpstreamResponds(r)
          \/ UpstreamUnreachable(r)
          \/ UpstreamTimeout(r)
          \/ ClientUploadEnds(r)
          \/ ClientDisconnects(r)
          \/ UpstreamCancelled(r)
          \/ Panic(r)
          \/ GinLoggerAfter(r)
          \/ Finalize(r)
          \/ Release(r)

SpecLife == InitWith("Starting") /\ [][LifeNext]_vars

\* the clock runs, and main goes on once srv.Shutdown has returned
LifeFairness == WF_vars(Tick) /\ WF_vars(ShutdownReturns)

SpecLifeLive == SpecLife /\ LifeFairness

(* ---------------- requests handled concurrently -------------------------- *)

\* net/http serves every connection in a goroutine of its own: the steps of
\* the requests in the two slots interleave freely
\* requests alike enough to be compared: with and without an identifier of
\* their own, with a token the gate admits and one it rejects
AcceptAlike(r) ==
    AcceptFrom(r, {"GET"}, {HealthPath, ProductsPath}, {""},
               {Bearer \o <<" ">> \o Token(3),
                Bearer \o <<" ">> \o Token(MinTokenLen)}, RequestIDs, {""})

ConcNext ==
    \E r \in Slots :
        \/ AcceptAlike(r)
        \/ RecoveryMiddleware(r)
        \/ RequestIDMiddleware(r)
        \/ LoggingMiddleware(r)
        \/ CORSMiddleware(r)
        \/ AuthMiddleware(r)
        \/ LocalHandler(r)
        \/ ProxyHandler(r)
        \/ UpstreamResponds(r)
        \/ UpstreamUnreachable(r)
        \/ UpstreamTimeout(r)
        \/ ClientUploadEnds(r)
        \/ ClientDisconnects(r)
        \/ UpstreamCancelled(r)
        \/ Panic(r)
        \/ GinLoggerAfter(r)
        \/ Finalize(r)
        \/ Release(r)

SpecConc == Init /\ [][ConcNext]_vars

(* ---------------- fairness: timers fire, handlers run on ---------------- *)

\* The runtime fires the timer of a context with a deadline, and a handler
\* that can return does.  Nothing obliges an upstream to answer.
Fairness ==
    \A r \in SeqSlots :
        /\ WF_vars(UpstreamTimeout(r))
        /\ WF_vars(GinLoggerAfter(r))
        /\ WF_vars(Finalize(r))

SpecLive == Spec /\ Fairness

(* ---------------- fairness: a cancelled round trip is given up ----------- *)

\* The transport gives a round trip up once its context is cancelled, and a
\* handler that can return does.  No timer and no upstream is relied on.
CancelFairness ==
    \A r \in SeqSlots :
        /\ WF_vars(UpstreamCancelled(r))
        /\ WF_vars(GinLoggerAfter(r))
        /\ WF_vars(Finalize(r))

SpecCancelLive == Spec /\ CancelFairness

(* ---------------- auth-service: errors, passwords, the users table ------- *)

StatusCreated == 201
StatusBadRequest == 400
StatusConflict == 409

\* the reading of the clock after which no caller starts a call; the clock
\* ticks when a call starts and when a service reads time.Now()
MaxClock == 4

\* A Go error: the parts of its message, outermost first, which Error()
\* joins with ": ", and the sentinel errors errors.Is finds in its chain.
GoError(parts, wraps) == [parts |-> parts, wraps |-> wraps]

Nil == GoError(<<>>, {})

\* errors.New(text), and fmt.Errorf(text) without a %w verb
ErrorsNew(text) == GoError(<<text>>, {text})

\* fmt.Errorf(text + ": %w", err)
Errorf(text, err) == GoError(<<text>> \o err.parts, err.wraps)

\* errors.Is(err, target) for a sentinel target
ErrorsIs(err, target) == target.parts[1] \in err.wraps

\* err.Error() == text
ErrorTextIs(err, text) == err.parts = <<text>>

ErrUserNotFound == ErrorsNew("user not found")

ErrDuplicateEmail == ErrorsNew("email already registered")

\* the error pgx returns for an INSERT that breaks users_email_key
PgUniqueViolation ==
    GoError(<<"ERROR", "duplicate key value violates unique constraint \"users_email_key\" (SQLSTATE 23505)">>,
            {"23505"})

\* the passwords tried: two that HashPassword takes, one that is too short
Password(n, k) == TokenFrom(n, k)

MinPasswordLen == 6

Passwords == {Password(MinPasswordLen, 0), Password(MinPasswordLen, 1), Password(3, 0)}

Emails == {"ann@example.com", "bob@example.com"}

\* a request body after ShouldBindJSON; bound is FALSE when binding failed
AuthRequest(email, password, name, bound) ==
    [email |-> email, password |-> password, name |-> name, bound |-> bound]

Unbound == AuthRequest("", <<>>, "", FALSE)

RegisterRequests ==
    { AuthRequest(e, p, "Ann", TRUE) : e \in Emails, p \in Passwords } \cup {Unbound}

LoginRequests ==
    { AuthRequest(e, p, "", TRUE) : e \in Emails, p \in Passwords \cup {<<>>} }
        \cup {Unbound}

\* passwordUtil.HashPassword: bcrypt, as a function only VerifyPassword inverts
HashPassword(password) ==
    IF password = <<>>
    THEN [hash |-> <<>>, err |-> ErrorsNew("password cannot be empty")]
    ELSE IF Len(password) < MinPasswordLen
    THEN [hash |-> <<>>,
          err |-> ErrorsNew("password must be at least 6 characters long")]
    ELSE [hash |-> <<"bcrypt">> \o password, err |-> Nil]

\* passwordUtil.VerifyPassword
VerifyPassword(password, hash) ==
    IF password = <<>> \/ hash = <<>> THEN FALSE
    ELSE hash = <<"bcrypt">> \o password

User(id, email, hash, name, createdAt, updatedAt) ==
    [id |-> id, email |-> email, password_hash |-> hash, name |-> name,
     created_at |-> createdAt, updated_at |-> updatedAt]

NoUser == User(<<>>, "", <<>>, "", 0, 0)

\* userRepository.GetUserByEmail
GetUserByEmail(table, email) ==
    IF \E u \in table : u.email = email
    THEN [user |-> CHOOSE u \in table : u.email = email, err |-> Nil]
    ELSE [user |-> NoUser, err |-> ErrUserNotFound]

\* the INSERT, had the users table no UNIQUE constraint on email
InsertUser_NoUnique(table, user) ==
    [err |-> Nil, table |-> table \cup {user}]

\* INSERT INTO users ..., under the table's constraints: email is UNIQUE
InsertUser(table, user) ==
    IF \E u \in table : u.email = user.email
    THEN [err |-> PgUniqueViolation, table |-> table]
    ELSE [err |-> Nil, table |-> table \cup {user}]

\* userRepository.CreateUser
CreateUser(table, user) ==
    LET ins == InsertUser(table, user) IN
    IF ins.err # Nil
    THEN IF ErrorTextIs(ins.err,
                        "pq: duplicate key value violates unique constraint \"users_email_key\"")
         THEN [err |-> ErrDuplicateEmail, table |-> ins.table]
         ELSE [err |-> Errorf("failed to create user", ins.err), table |-> ins.table]
    ELSE ins

\* jwtUtil.GenerateToken(user.ID.String(), user.Email, hours)
GenerateToken(id, email) == [sub |-> id, email |-> email]

NoToken == GenerateToken(<<>>, "")

\* what a service call returns: *model.AuthResponse and error
AuthResult(token, user, err) == [token |-> token, user |-> user, err |-> err]

\* user.PasswordHash = ""
ClearPasswordHash(user) == [user EXCEPT !.password_hash = <<>>]

\* a response of the auth handlers: status and JSON body
AuthReply(status, error, token, user) ==
    [status |-> status, error |-> error, token |-> token, user |-> user]

\* AuthHandler.Register, from the service's result on
RegisterReply(res) ==
    IF res.err # Nil
    THEN IF ErrorTextIs(res.err, "email already registered")
         THEN AuthReply(StatusConflict, "Email already registered", NoToken, NoUser)
         ELSE AuthReply(StatusInternalServerError, "Registration failed", NoToken,
                        NoUser)
    ELSE AuthReply(StatusCreated, "", res.token, res.user)

\* AuthHandler.Login, from the service's result on
LoginReply(res) ==
    IF res.err # Nil
    THEN AuthReply(StatusUnauthorized, "Invalid credentials", NoToken, NoUser)
    ELSE AuthReply(StatusOK, "", res.token, res.user)

\* authService.Login
LoginService(table, req) ==
    LET got == GetUserByEmail(table, req.email) IN
    IF got.err # Nil
    THEN IF ErrorsIs(got.err, ErrUserNotFound)
         THEN AuthResult(NoToken, NoUser, ErrorsNew("invalid credentials"))
         ELSE AuthResult(NoToken, NoUser, Errorf("failed to get user", got.err))
    ELSE IF ~VerifyPassword(req.password, got.user.password_hash)
    THEN AuthResult(NoToken, NoUser, ErrorsNew("invalid credentials"))
    ELSE AuthResult(GenerateToken(got.user.id, got.user.email),
                    ClearPasswordHash(got.user), Nil)

(* ---------------- auth-service: calls as they interleave ----------------- *)

AuthInit ==
    /\ GatewayIdle("Serving")
    /\ BackendIdle

\* a request arrives at AuthHandler.Register and is bound
RegisterCalled(c) ==
    /\ calls[c] = NoCall
    /\ clock < MaxClock
    /\ \E req \in RegisterRequests :
         calls' = [calls EXCEPT ![c] =
                      IF req.bound
                      THEN Call("Register", "GetUserByEmail", req, NoUser, <<>>)
                      ELSE Call("Register", "done", req, NoUser,
                                AuthReply(StatusBadRequest, "Invalid request payload",
                                          NoToken, NoUser))]
    /\ clock' = clock + 1
    /\ UNCHANGED <<gateway, users, products>>

\* authService.Register up to the INSERT: the lookup, the hash, the new user
RegisterLooksUp(c) ==
    /\ calls[c].op = "Register"
    /\ calls[c].at = "GetUserByEmail"
    /\ LET req == calls[c].req
           got == GetUserByEmail(users, req.email)
           hashed == HashPassword(req.password)
           failed(err) == [calls[c] EXCEPT !.at = "done",
                             !.resp = RegisterReply(AuthResult(NoToken, NoUser, err))]
       IN
       IF got.user # NoUser
       THEN calls' = [calls EXCEPT ![c] =
                         failed(Errorf("email already registered", ErrDuplicateEmail))]
       ELSE IF got.err # Nil /\ ~ErrorsIs(got.err, ErrUserNotFound)
       THEN calls' = [calls EXCEPT ![c] =
                         failed(Errorf("failed to check existing user", got.err))]
       ELSE IF hashed.err # Nil
       THEN calls' = [calls EXCEPT ![c] =
                         failed(Errorf("failed to hash password", hashed.err))]
       ELSE calls' = [calls EXCEPT ![c].at = "CreateUser",
                                   ![c].seen = User(NewUUID(clock), req.email, hashed.hash,
                                                    req.name, clock, clock)]
    /\ clock' = IF calls'[c].at = "CreateUser" THEN clock + 1 ELSE clock
    /\ UNCHANGED <<gateway, users, products>>

\* authService.Register from userRepo.CreateUser on, and the handler's reply
RegisterInserts(c) ==
    /\ calls[c].op = "Register"
    /\ calls[c].at = "CreateUser"
    /\ LET user == calls[c].seen
           made == CreateUser(users, user)
           res == IF made.err # Nil
                  THEN AuthResult(NoToken, NoUser,
                                  Errorf("failed to create user", made.err))
                  ELSE AuthResult(GenerateToken(user.id, user.email),
                                  ClearPasswordHash(user), Nil)
       IN
       /\ users' = made.table
       /\ calls' = [calls EXCEPT ![c].at = "done", ![c].resp = RegisterReply(res)]
    /\ UNCHANGED <<gateway, products, clock>>

\* a request arrives at AuthHandler.Login and is bound
LoginCalled(c) ==
    /\ calls[c] = NoCall
    /\ clock < MaxClock
    /\ \E req \in LoginRequests :
         calls' = [calls EXCEPT ![c] =
                      IF req.bound
                      THEN Call("Login", "GetUserByEmail", req, NoUser, <<>>)
                      ELSE Call("Login", "done", req, NoUser,
                                AuthReply(StatusBadRequest, "Invalid request payload",
                                          NoToken, NoUser))]
    /\ clock' = clock + 1
    /\ UNCHANGED <<gateway, users, products>>

\* Login, had it answered an unknown email differently from a wrong password
LoginRuns_TellsApart(c) ==
    /\ calls[c].op = "Login"
    /\ calls[c].at = "GetUserByEmail"
    /\ LET res == LoginService(users, calls[c].req)
           got == GetUserByEmail(users, calls[c].req.email) IN
       calls' = [calls EXCEPT ![c].at = "done",
                              ![c].seen = got.user,
                              ![c].resp =
                                  IF got.user = NoUser
                                  THEN AuthReply(StatusNotFound, "User not found",
                                                 NoToken, NoUser)
                                  ELSE LoginReply(res)]
    /\ UNCHANGED <<gateway, users, products, clock>>

\* authService.Login and the handler's reply; seen keeps the row the
\* lookup found
LoginRuns(c) ==
    /\ calls[c].op = "Login"
    /\ calls[c].at = "GetUserByEmail"
    /\ LET res == LoginService(users, calls[c].req)
           got == GetUserByEmail(users, calls[c].req.email) IN
       calls' = [calls EXCEPT ![c].at = "done",
                              ![c].seen = got.user,
                              ![c].resp = LoginReply(res)]
    /\ UNCHANGED <<gateway, users, products, clock>>

\* the response has been written; the caller may call again
AuthReturns(c) ==
    /\ calls[c].op \in {"Register", "Login"}
    /\ calls[c].at = "done"
    /\ calls' = [calls EXCEPT ![c] = NoCall]
    /\ UNCHANGED <<gateway, users, products, clock>>

AuthNext ==
    \E c \in Callers :
        \/ RegisterCalled(c)
        \/ RegisterLooksUp(c)
        \/ RegisterInserts(c)
        \/ LoginCalled(c)
        \/ LoginRuns(c)
        \/ AuthReturns(c)

SpecAuth == AuthInit /\ [][AuthNext]_vars

(* ---------------- product-service: requests, rows, SQL ------------------- *)

\* a field of a JSON body: <<v>> when the body carries it, <<>> when not
Given(v) == <<v>>

Absent == <<>>

\* a JSON body of CreateProduct or UpdateProduct; bound is FALSE when the
\* body is not JSON at all
ProductBody(name, description, price, category, stock, bound) ==
    [name |-> name, description |-> description, price |-> price,
     category |-> category, stock |-> stock, bound |-> bound]

NotJSON == ProductBody(Absent, Absent, Absent, Absent, Absent, FALSE)

CreateBodies ==
    { ProductBody(Given("Mug"), Given("red"), Given(5), Given("kitchen"), Given(2), TRUE),
      ProductBody(Absent, Absent, Given(5), Absent, Absent, TRUE),
      NotJSON }

UpdateBodies ==
    { ProductBody(n, d, p, Absent, Absent, TRUE) :
          n \in {Absent, Given("Cup")}, d \in {Absent, Given("blue")},
          p \in {Absent, Given(7), Given(-1)} }
        \cup {NotJSON}

\* the product ids named in the paths of update and delete requests
ProductIDs == {NewUUID(0), NewUUID(1), <<"uuid", 0>>}

\* c.ShouldBindJSON(&req): a field the body does not carry keeps Go's zero
\* value
FieldOr(field, zero) == IF field = Absent THEN zero ELSE field[1]

ProductRequest(name, description, price, category, stock) ==
    [Name |-> name, Description |-> description, Price |-> price,
     Category |-> category, Stock |-> stock]

ShouldBindJSON(body) ==
    ProductRequest(FieldOr(body.name, ""), FieldOr(body.description, ""),
                   FieldOr(body.price, 0), FieldOr(body.category, ""),
                   FieldOr(body.stock, 0))

\* CreateProductRequest.Validate: name and price required, price > 0, stock >= 0
ValidCreate(req) == req.Name # "" /\ req.Price > 0 /\ req.Stock >= 0

\* UpdateProductRequest.Validate: omitempty skips a field holding its zero value
ValidUpdate(req) ==
    /\ req.Price # 0 => req.Price > 0
    /\ req.Stock # 0 => req.Stock >= 0

Product(id, name, description, price, category, stock, createdAt, updatedAt) ==
    [id |-> id, name |-> name, description |-> description, price |-> price,
     category |-> category, stock |-> stock, created_at |-> createdAt,
     updated_at |-> updatedAt]

NoProduct == Product(<<>>, "", "", 0, "", 0, 0, 0)

\* a Go value bound to a placeholder of a statement: database/sql sends a
\* string, float64 or int as a value, never as NULL
SqlParam(v) == [null |-> FALSE, v |-> v]

\* COALESCE(param, column)
COALESCE(param, column) == IF param.null THEN column ELSE param.v

\* SELECT EXISTS(SELECT 1 FROM products WHERE id = $1)
Exists(table, id) == \E p \in table : p.id = id

\* UPDATE products SET ... WHERE id = $7 RETURNING ...: the rows after the
\* statement and the rows it returned
SqlUpdate(table, id, req, now) ==
    LET set(p) == [p EXCEPT !.name = COALESCE(SqlParam(req.Name), p.name),
                            !.description = COALESCE(SqlParam(req.Description),
                                                     p.description),
                            !.price = COALESCE(SqlParam(req.Price), p.price),
                            !.category = COALESCE(SqlParam(req.Category), p.category),
                            !.stock = COALESCE(SqlParam(req.Stock), p.stock),
                            !.updated_at = now]
    IN [table |-> { IF p.id = id THEN set(p) ELSE p : p \in table },
        rows |-> { set(p) : p \in { q \in table : q.id = id } }]

\* DELETE FROM products WHERE id = $1
SqlDelete(table, id) ==
    [table |-> { p \in table : p.id # id },
     rowsAffected |-> Cardinality({ p \in table : p.id = id })]

ErrNoRows == ErrorsNew("sql: no rows in result set")

\* a response of the product handlers: status and JSON body
ProductReply(status, error, message, data) ==
    [status |-> status, error |-> error, message |-> message, data |-> data]

\* ProductHandler.UpdateProduct, from the service's result on
UpdateReply(product, err) ==
    IF err # Nil
    THEN IF ErrorTextIs(err, "product not found")
         THEN ProductReply(StatusNotFound, "Product not found", "", NoProduct)
         ELSE ProductReply(StatusInternalServerError, "Failed to update product", "",
                           NoProduct)
    ELSE ProductReply(StatusOK, "", "", product)

\* ProductHandler.DeleteProduct, from the service's result on
DeleteReply(err) ==
    IF err # Nil
    THEN IF ErrorTextIs(err, "product not found")
         THEN ProductReply(StatusNotFound, "Product not found", "", NoProduct)
         ELSE ProductReply(StatusInternalServerError, "Failed to delete product", "",
                           NoProduct)
    ELSE ProductReply(StatusOK, "", "Product deleted successfully", NoProduct)

(* ---------------- product-service: calls as they interleave -------------- *)

ProductInit ==
    /\ GatewayIdle("Serving")
    /\ BackendIdle

\* ProductHandler.CreateProduct, productService.CreateProduct and
\* productRepository.Create: one INSERT
CreateProductRuns(c) ==
    /\ calls[c] = NoCall
    /\ clock < MaxClock
    /\ \E body \in CreateBodies :
         LET req == ShouldBindJSON(body)
             product == Product(NewUUID(clock), req.Name, req.Description, req.Price,
                                req.Category, req.Stock, clock, clock)
             done(resp) == Call("Create", "done", [id |-> <<>>, body |-> body],
                                NoProduct, resp)
         IN
         IF ~body.bound
         THEN /\ calls' = [calls EXCEPT ![c] =
                              done(ProductReply(StatusBadRequest, "Invalid request body",
                                                "", NoProduct))]
              /\ products' = products
         ELSE IF ~ValidCreate(req)
         THEN /\ calls' = [calls EXCEPT ![c] =
                              done(ProductReply(StatusInternalServerError,
                                                "Failed to create product", "",
                                                NoProduct))]
              /\ products' = products
         ELSE /\ calls' = [calls EXCEPT ![c] =
                              done(ProductReply(StatusCreated, "", "", product))]
              /\ products' = products \cup {product}
    /\ clock' = clock + 1
    /\ UNCHANGED <<gateway, users>>

\* ProductHandler.UpdateProduct down to productRepository.Update's check
\* that the product exists
UpdateChecks(c) ==
    /\ calls[c] = NoCall
    /\ clock < MaxClock
    /\ \E id \in ProductIDs, body \in UpdateBodies :
         LET req == ShouldBindJSON(body)
             done(resp) == Call("Update", "done", [id |-> id, body |-> body],
                                NoProduct, resp)
         IN
         calls' = [calls EXCEPT ![c] =
                      IF ~body.bound
                      THEN done(ProductReply(StatusBadRequest, "Invalid request body",
                                             "", NoProduct))
                      ELSE IF ~ValidUpdate(req)
                      THEN done(UpdateReply(NoProduct, ErrorsNew("validation failed")))
                      ELSE IF ~Exists(products, id)
                      THEN done(UpdateReply(NoProduct, ErrorsNew("product not found")))
                      ELSE Call("Update", "UPDATE", [id |-> id, body |-> body],
                                NoProduct, <<>>)]
    /\ clock' = clock + 1
    /\ UNCHANGED <<gateway, users, products>>

\* productRepository.Update from its UPDATE statement on, and the reply
UpdateWrites(c) ==
    /\ calls[c].op = "Update"
    /\ calls[c].at = "UPDATE"
    /\ LET id == calls[c].req.id
           req == ShouldBindJSON(calls[c].req.body)
           upd == SqlUpdate(products, id, req, clock)
       IN
       /\ products' = upd.table
       /\ calls' = [calls EXCEPT ![c].at = "done",
                      ![c].resp =
                          IF upd.rows = {}
                          THEN UpdateReply(NoProduct,
                                           Errorf("failed to update product", ErrNoRows))
                          ELSE UpdateReply(CHOOSE p \in upd.rows : TRUE, Nil)]
    /\ clock' = clock + 1
    /\ UNCHANGED <<gateway, users>>

\* ProductHandler.DeleteProduct down to productRepository.Delete's check
\* that the product exists
DeleteChecks(c) ==
    /\ calls[c] = NoCall
    /\ clock < MaxClock
    /\ \E id \in ProductIDs :
         calls' = [calls EXCEPT ![c] =
                      IF ~Exists(products, id)
                      THEN Call("Delete", "done", [id |-> id, body |-> NotJSON],
                                NoProduct,
                                DeleteReply(ErrorsNew("product not found")))
                      ELSE Call("Delete", "DELETE", [id |-> id, body |-> NotJSON],
                                NoProduct, <<>>)]
    /\ clock' = clock + 1
    /\ UNCHANGED <<gateway, users, products>>

\* productRepository.Delete from its DELETE statement on, and the reply
DeleteRuns(c) ==
    /\ calls[c].op = "Delete"
    /\ calls[c].at = "DELETE"
    /\ LET del == SqlDelete(products, calls[c].req.id) IN
       /\ products' = del.table
       /\ calls' = [calls EXCEPT ![c].at = "done",
                      ![c].resp = IF del.rowsAffected = 0
                                  THEN DeleteReply(ErrorsNew("product not found"))
                                  ELSE DeleteReply(Nil)]
    /\ UNCHANGED <<gateway, users, clock>>

\* the response has been written; the caller may call again
ProductReturns(c) ==
    /\ calls[c].op \in {"Create", "Update", "Delete"}
    /\ calls[c].at = "done"
    /\ calls' = [calls EXCEPT ![c] = NoCall]
    /\ UNCHANGED <<gateway, users, products, clock>>

ProductNext ==
    \E c \in Callers :
        \/ CreateProductRuns(c)
        \/ UpdateChecks(c)
        \/ UpdateWrites(c)
        \/ DeleteChecks(c)
        \/ DeleteRuns(c)
        \/ ProductReturns(c)

SpecProduct == ProductInit /\ [][ProductNext]_vars

(* ------------------------------ claims ---------------------------------- *)

Done(r) == pc[r] = "done"

\* the inbound surface: the methods registered for each path
RegisteredMethods(path) ==
    CASE path = <<"health">> -> {"GET"}
      [] path = <<"api", "v1", "auth", "login">> -> {"POST"}
      [] path = <<"api", "v1", "auth", "register">> -> {"POST"}
      [] path = <<"api", "v1", "products">> -> {"GET", "POST"}
      [] path = <<"api", "v1", "products", "123">> -> {"GET", "PUT", "DELETE"}
      [] OTHER -> {}

\* a request matched to one of the /api/v1/products routes
OnProtectedRoute(r) ==
    /\ rq[r].path \in { <<"api", "v1", "products">>, <<"api", "v1", "products", "123">> }
    /\ rq[r].method \in RegisteredMethods(rq[r].path)

\* headers of the exact form "Bearer <token>"
BearerHeaders == { Bearer \o <<" ">> \o Token(n) : n \in 0..MaxTokLen }

UnauthorizedBody(msg) ==
    <<[kind |-> "envelope", error |-> msg, code |-> 401, method |-> "",
       path |-> <<>>, details |-> "", payload |-> <<>>]>>

\* C1: on a protected route, a request whose Authorization header is absent,
\* empty, or not "Bearer" and one more part, is answered by the Auth Gate
\* with 401 and the matching envelope, and the Upstream Proxy is never
\* invoked for it.
C1_MalformedHeaderRejected ==
    \A r \in Slots :
        (OnProtectedRoute(r) /\ rq[r].auth \notin BearerHeaders) =>
            /\ out[r] = <<>>
            /\ up[r] = NoReply
            /\ \A i \in 1..Len(trace[r]) : trace[r][i] # "Proxy"
            /\ gate[r] # "NotRun" =>
                 /\ gate[r] = "Rejected"
                 /\ w[r].status = 401
                 /\ w[r].written
                 /\ w[r].body = UnauthorizedBody(
                        IF rq[r].auth = <<>> THEN "Authorization header required"
                        ELSE "Invalid authorization header format")

C1_Witness ==
    \E r \in Slots :
        /\ Done(r)
        /\ OnProtectedRoute(r)
        /\ rq[r].auth = Bearer \o <<" ", " ">> \o Token(10)
        /\ gate[r] = "Rejected"

\* C2: the Auth Gate, run on a request whose path is exactly a public
\* endpoint, never answers 401 whatever the Authorization header is, and
\* hands the request on untouched to the next handler.
C2_PublicNeverRejected ==
    \A r \in Slots :
        ( /\ rq[r].path \in { <<"api", "v1", "auth", "login">>,
                              <<"api", "v1", "auth", "register">>, <<"health">> }
          /\ gate[r] # "NotRun" ) =>
            /\ gate[r] = "Public"
            /\ w[r].status # 401
            /\ ~w[r].written
            /\ w[r].body = <<>>
            /\ logs[r] = <<>>
            /\ ctx[r] = NoContext
            /\ pc[r] = "chain"
            /\ idx[r] = GatePosition + 1

C2_Witness ==
    \E r \in Slots :
        /\ rq[r].path = <<"health">>
        /\ rq[r].auth = Bearer \o <<" ">> \o Token(3)
        /\ gate[r] = "Public"
        /\ idx[r] = GatePosition + 1

\* C3: on a protected route, a "Bearer <token>" header whose token is empty
\* or shorter than 10 characters is answered 401 "Invalid or expired token",
\* with exactly one warning record naming the path, and no upstream call.
C3_ShortTokenRejected ==
    \A r \in Slots :
        ( /\ OnProtectedRoute(r)
          /\ rq[r].auth \in { Bearer \o <<" ">> \o Token(n) : n \in 0..9 } ) =>
            /\ out[r] = <<>>
            /\ up[r] = NoReply
            /\ gate[r] # "NotRun" =>
                 /\ gate[r] = "Rejected"
                 /\ w[r].status = 401
                 /\ w[r].body = UnauthorizedBody("Invalid or expired token")
                 /\ Cardinality({ i \in 1..Len(logs[r]) : logs[r][i].level = "warn" }) = 1
                 /\ \A i \in 1..Len(logs[r]) :
                        logs[r][i].level = "warn" => logs[r][i].path = rq[r].path

C3_Witness ==
    \E r \in Slots :
        /\ Done(r)
        /\ rq[r].method = "GET"
        /\ rq[r].path = <<"api", "v1", "products", "123">>
        /\ rq[r].auth = Bearer \o <<" ">> \o Token(3)
        /\ w[r].status = 401

InternalErrorBody ==
    <<[kind |-> "envelope", error |-> "Internal server error", code |-> 500,
       method |-> "", path |-> <<>>, details |-> "", payload |-> <<>>]>>

\* C4: a request in whose handling a panic was raised behind the Panic Guard
\* before any response byte was written is answered 500 with the body
\* {"error":"Internal server error","code":500}.
C4_PanicAnswered500 ==
    \A r \in Slots :
        (Done(r) /\ fault[r] = "recovered") =>
            /\ w[r].status = 500
            /\ w[r].body = InternalErrorBody

\* C5: no panic propagates past the Panic Guard, the server keeps serving,
\* and a request handled after another one panicked is answered as usual.
C5_PanicContained ==
    /\ server = "Serving"
    /\ \A r \in Slots :
        /\ fault[r] # "escaped"
        /\ ~w[r].closed
        /\ (panicked /\ Done(r) /\ fault[r] = "none" /\ rq[r].method = "GET"
              /\ rq[r].path = <<"health">>) =>
             (w[r].status = 200 /\ w[r].body = <<HealthBody>>)

C5_Witness ==
    \E r \in Slots :
        /\ panicked
        /\ accepted = 2
        /\ Done(r)
        /\ fault[r] = "none"
        /\ rq[r].path = <<"health">>
        /\ w[r].status = 200

\* C6: when the upstream call completes with a response, the client gets
\* the upstream's status and body unchanged, whatever the status; for a
\* status of 400 or more the body is also logged.
C6_UpstreamRelayedVerbatim ==
    \A r \in Slots :
        up[r].kind = "response" =>
            /\ w[r].status = up[r].status
            /\ w[r].written
            /\ w[r].body = <<[kind |-> "upstream", error |-> "", code |-> 0,
                              method |-> "", path |-> <<>>, details |-> "",
                              payload |-> up[r].data]>>
            /\ up[r].status >= 400 =>
                 \E i \in 1..Len(logs[r]) :
                     logs[r][i].level = "error" /\ logs[r][i].body = up[r].data

C6_Witness ==
    \E r \in Slots :
        /\ Done(r)
        /\ up[r] = Reply("response", 503, <<"x", "y">>)
        /\ w[r].status = 503

ServiceUnavailableBody ==
    <<[kind |-> "envelope", error |-> "Service unavailable", code |-> 500,
       method |-> "", path |-> <<>>, details |-> "", payload |-> <<>>]>>

\* C7: a request waiting on an upstream does not wait forever: it completes,
\* and when the timeout ended the wait the answer is 500 with the body
\* {"error":"Service unavailable","code":500}.
C7_TimeoutCompletes ==
    /\ [](\A r \in Slots :
            up[r].kind = "timeout" =>
                (w[r].status = 500 /\ w[r].body = ServiceUnavailableBody))
    /\ \A r \in Slots : (pc[r] = "await") ~> (pc[r] = "done")

C7_Witness ==
    \E r \in Slots : Done(r) /\ up[r].kind = "timeout" /\ w[r].status = 500

\* C8: when the outbound call fails at transport level, the client gets 500
\* with only error = "Service unavailable" and code = 500; the fault's
\* description goes to an error record with the upstream URL, method and
\* path, and not to the client.
C8_TransportFailureNormalized ==
    \A r \in Slots :
        up[r].kind \in {"unreachable", "timeout"} =>
            /\ w[r].status = 500
            /\ w[r].body = ServiceUnavailableBody
            /\ \E i \in 1..Len(logs[r]) :
                 /\ logs[r][i].level = "error"
                 /\ logs[r][i].fault \in {"dial tcp: connection refused",
                                          "context deadline exceeded"}
                 /\ logs[r][i].url \in {"http://auth-service", "http://product-service"}
                 /\ logs[r][i].method = rq[r].method
                 /\ logs[r][i].path = rq[r].path

C8_Witness ==
    \E r \in Slots : Done(r) /\ up[r].kind = "unreachable" /\ w[r].status = 500

\* a request that raises no panic and is not a CORS preflight
Plain(r) == fault[r] = "none" /\ rq[r].method # "OPTIONS"

\* C9: a request whose path is registered, but not for its method, is
\* answered 405 with an envelope that names the method, without any
\* upstream call.
C9_WrongMethod405 ==
    \A r \in Slots :
        ( /\ Done(r)
          /\ Plain(r)
          /\ RegisteredMethods(rq[r].path) # {}
          /\ rq[r].method \notin RegisteredMethods(rq[r].path) ) =>
            /\ w[r].status = 405
            /\ Len(w[r].body) = 1
            /\ w[r].body[1].kind = "envelope"
            /\ w[r].body[1].code = 405
            /\ w[r].body[1].method = rq[r].method
            /\ out[r] = <<>>

NotFoundBody(path) ==
    <<[kind |-> "envelope", error |-> "Endpoint not found", code |-> 404,
       method |-> "", path |-> path, details |-> "", payload |-> <<>>]>>

\* the path with a trailing slash removed, when it has one
Unslashed(path) ==
    IF Len(path) > 1 /\ path[Len(path)] = "" THEN SubSeq(path, 1, Len(path) - 1)
    ELSE path

\* C10 as stated: every request whose path matches no registered route is
\* answered 404 with an envelope carrying code 404 and the requested path,
\* without any upstream call.
C10_UnmatchedPath404 ==
    \A r \in Slots :
        (Done(r) /\ Plain(r) /\ RegisteredMethods(rq[r].path) = {}) =>
            /\ w[r].status = 404
            /\ w[r].body = NotFoundBody(rq[r].path)
            /\ out[r] = <<>>

\* C10 amended: a request whose path matches no registered route, and is not
\* a path registered for the request's method with a trailing slash added,
\* is answered 404 with an envelope carrying code 404 and the requested
\* path; the trailing-slash variant is redirected (301 for GET, 307
\* otherwise) to the registered path; in neither case is an upstream called.
C10_UnmatchedPath404OrRedirect ==
    \A r \in Slots :
        (Done(r) /\ Plain(r) /\ RegisteredMethods(rq[r].path) = {}) =>
            /\ out[r] = <<>>
            /\ IF rq[r].method \in RegisteredMethods(Unslashed(rq[r].path))
               THEN /\ w[r].status = (IF rq[r].method = "GET" THEN 301 ELSE 307)
                    /\ w[r].location = Unslashed(rq[r].path)
               ELSE /\ w[r].status = 404
                    /\ w[r].body = NotFoundBody(rq[r].path)

C10_Witness ==
    \E r \in Slots :
        /\ Done(r)
        /\ rq[r].method = "GET"
        /\ rq[r].path = <<"nope">>
        /\ w[r].status = 404

(* ---------------- response shapes, identifiers, stage order ------------- *)

\* the response of r is the upstream's, status and body as they came
IsRelay(r) ==
    /\ up[r].kind = "response"
    /\ w[r].status = up[r].status
    /\ w[r].body = <<RawBody(up[r].data)>>

\* the response of r is one Error Envelope whose status is among statuses
IsEnvelope(r, statuses) ==
    /\ w[r].status \in statuses
    /\ Len(w[r].body) = 1
    /\ w[r].body[1].kind = "envelope"
    /\ w[r].body[1].code = w[r].status

\* the response of r has no body
IsBare(r, statuses) == w[r].status \in statuses /\ w[r].body = <<>>

\* a response has left the gateway for r
Answered(r) == Done(r) /\ w[r].written /\ ~w[r].closed

GatewayMessages ==
    {"Authorization header required", "Invalid authorization header format",
     "Invalid or expired token", "Endpoint not found", "Method not allowed",
     "Internal server error", "Service unavailable"}

\* an error response the gateway made itself: no upstream response is being
\* relayed, whole or in part
GatewayError(r) ==
    /\ Answered(r)
    /\ w[r].status >= 400
    /\ up[r].kind \notin {"response", "truncated"}

\* C12: every error response originated by the gateway itself (the Auth
\* Gate's 401s, 404, 405, the Panic Guard's 500, the proxy's 500) is a JSON
\* envelope whose code equals the HTTP status, with one of the gateway's
\* fixed messages and no details, stack trace or upstream bytes in it.
C12_GatewayErrorsAreClean ==
    \A r \in Slots :
        GatewayError(r) =>
            /\ IsEnvelope(r, {w[r].status})
            /\ w[r].body[1].error \in GatewayMessages
            /\ w[r].body[1].details = ""
            /\ w[r].body[1].payload = <<>>

\* the Correlation Stamper has run for the request of r
Stamped(r) == \E i \in 1..Len(trace[r]) : trace[r][i] = "RequestID"

\* C13 (as claimed): every response carries an X-Request-ID header: the
\* inbound one when it was non-empty, a newly generated one otherwise.
C13_EveryResponseStamped ==
    \A r \in Slots :
        Answered(r) =>
            /\ w[r].requestID # NoID
            /\ rq[r].requestID # NoID => w[r].requestID = rq[r].requestID

\* C13 (amended): for every request the Correlation Stamper has run for,
\* the response's X-Request-ID equals the inbound X-Request-ID when that was
\* non-empty and is a newly generated non-empty value otherwise, the same
\* value is stored in the context under request_id, and no two generated
\* identifiers are equal; a trailing-slash redirect, which the router
\* answers before any middleware, carries no X-Request-ID.
C13_CorrelationStamped ==
    /\ \A r \in Slots :
          /\ Stamped(r) =>
               /\ w[r].requestID # NoID
               /\ rq[r].requestID # NoID => w[r].requestID = rq[r].requestID
               /\ rq[r].requestID = NoID =>
                    \E i \in 1..Len(issued) : w[r].requestID = issued[i]
               /\ "request_id" \in ctx[r].keys
               /\ ctx[r].request_id = w[r].requestID
          /\ disp[r] = "redirect" => w[r].requestID = NoID
    /\ \A i, j \in 1..Len(issued) : i # j => issued[i] # issued[j]

\* a second request without an identifier is answered, and so is one that
\* brought its own
C13_Witness ==
    /\ Len(issued) = 2
    /\ \E r \in Slots :
          /\ Answered(r)
          /\ rq[r].requestID = NoID
          /\ w[r].requestID = issued[2]

\* the place of a stage in the pipeline; the handlers that answer locally
\* stand where the Upstream Proxy does
StageRank(stage) ==
    CASE stage = "Recovery" -> 1
      [] stage = "RequestID" -> 2
      [] stage = "Logger" -> 3
      [] stage = "CORS" -> 4
      [] stage = "Auth" -> 5
      [] OTHER -> 6

HasRun(r, stage) == \E i \in 1..Len(trace[r]) : trace[r][i] = stage

\* C14: within one request the stages run strictly in the order Panic Guard,
\* Correlation Stamper, Access Logger, CORS Policy, then (protected routes
\* only) Auth Gate, then Upstream Proxy: no stage starts before every stage
\* ahead of it has, the Auth Gate runs on protected routes only, and on a
\* protected route the Upstream Proxy runs only once the gate has admitted.
C14_StageOrder ==
    \A r \in Slots :
        /\ \A i \in 1..Len(trace[r]) :
              /\ i <= 4 => StageRank(trace[r][i]) = i
              /\ i > 4 => StageRank(trace[r][i]) > 4
              /\ \A j \in 1..Len(trace[r]) :
                    i < j => StageRank(trace[r][i]) < StageRank(trace[r][j])
        /\ HasRun(r, "Auth") => OnProtectedRoute(r)
        /\ (HasRun(r, "Proxy") /\ OnProtectedRoute(r)) =>
              /\ HasRun(r, "Auth")
              /\ gate[r] = "Admitted"
        /\ (HasRun(r, "Proxy") /\ ~OnProtectedRoute(r)) =>
              /\ rq[r].method = "POST"
              /\ rq[r].path \in {LoginPath, RegisterPath}
        /\ out[r] # <<>> => HasRun(r, "Proxy")

\* a request on a protected route has gone through all six stages
C14_Witness ==
    \E r \in Slots :
        /\ Done(r)
        /\ OnProtectedRoute(r)
        /\ trace[r] = <<"Recovery", "RequestID", "Logger", "CORS", "Auth", "Proxy">>
        /\ up[r].kind = "response"

\* the access records among the records logged for r
AccessRecords(r) == { i \in 1..Len(logs[r]) : logs[r][i].msg = "HTTP request" }

\* C15: for every request that enters the pipeline, whatever its outcome
\* (relayed, rejected by the gate, 404/405, upstream failure, or a panic
\* downstream), the Access Logger has emitted, once the response is final,
\* exactly one access record, with the method, the path and query, the
\* final status and the correlation identifier, at error severity when the
\* status is 400 or above and at info severity otherwise.
C15_OneAccessRecord ==
    \A r \in Slots :
        (Done(r) /\ HasRun(r, "Logger")) =>
            /\ Cardinality(AccessRecords(r)) = 1
            /\ \A i \in AccessRecords(r) :
                  /\ logs[r][i].method = rq[r].method
                  /\ logs[r][i].path = rq[r].path
                  /\ logs[r][i].query = rq[r].query
                  /\ logs[r][i].status = w[r].status
                  /\ logs[r][i].requestID = w[r].requestID
                  /\ logs[r][i].level =
                        IF w[r].status >= 400 THEN "error" ELSE "info"

(* ---------------- lifecycle ---------------------------------------------- *)

LifeRank(state) ==
    CASE state = "Starting" -> 1
      [] state = "Serving" -> 2
      [] state = "Draining" -> 3
      [] state = "Stopped" -> 4

\* C16: the lifecycle moves only forward along Starting, Serving, Draining,
\* Stopped; once a signal has arrived no new request is accepted, requests
\* in flight go on for at most the 30 seconds of the grace period, the
\* process then reaches Stopped, and from Stopped nothing happens any more:
\* it never serves again.
C16_Lifecycle ==
    /\ [](server \in {"Starting", "Serving", "Draining", "Stopped"})
    /\ [][LifeRank(server') >= LifeRank(server)]_vars
    /\ [][server # "Serving" => accepted' = accepted]_vars
    /\ [](server = "Draining" => main.elapsed <= ShutdownGrace)
    /\ [][server = "Stopped" => UNCHANGED vars]_vars
    /\ (server = "Draining") ~> (server = "Stopped")

\* the grace period has run out on a request still in flight
C16_Witness ==
    /\ server = "Draining"
    /\ main.elapsed = ShutdownGrace
    /\ \E r \in Slots : InFlight(r) /\ pc[r] = "await"

\* C17: the process exits with code 0 and a final clean-exit record when the
\* drain completed within the grace period, with a non-zero code when the
\* listener failed to bind, and with a non-zero code and a forced-shutdown
\* record when the grace period ran out on requests in flight.
C17_ExitCodes ==
    server = "Stopped" =>
        /\ main.cause = "drained" =>
              /\ main.code = 0
              /\ \E i \in 1..Len(main.records) :
                     main.records[i].msg = "Server exited properly"
        /\ main.cause = "bind" => main.code # 0
        /\ main.cause = "forced" =>
              /\ main.code # 0
              /\ \E i \in 1..Len(main.records) :
                     main.records[i].msg = "Server forced to shutdown"

(* ---------------- the outbound leg ---------------------------------------- *)

\* C18: the context of the outbound request is derived from the context of
\* the inbound request, with the timeout on top; when the client goes away
\* while the gateway waits on the upstream, the outbound call is given up,
\* whether or not the upstream answers or the timeout fires, and an outbound
\* call is cancelled only for a client that has gone.
C18_ClientCancelPropagates ==
    /\ [](\A r \in Slots :
            /\ pc[r] = "await" => ctx[r].parent = "request" /\ ctx[r].deadline
            /\ up[r].kind = "cancelled" => ctx[r].cancelled)
    /\ \A r \in SeqSlots :
          (pc[r] = "await" /\ ctx[r].cancelled) ~> (pc[r] # "await")

\* a round trip given up for a client that went away
C18_Witness ==
    \E r \in Slots :
        /\ Done(r)
        /\ ctx[r].cancelled
        /\ up[r].kind = "cancelled"

\* the outbound request has the method, path, query and headers the inbound
\* request of r came with, and goes to the upstream of the route
SameAsInbound(r, o) ==
    /\ o.method = rq[r].method
    /\ o.path = rq[r].path
    /\ o.query = rq[r].query
    /\ o.auth = rq[r].auth
    /\ o.requestID = rq[r].requestID
    /\ o.origin = rq[r].origin
    /\ o.target = IF OnProtectedRoute(r) THEN ProductsBaseURL ELSE AuthBaseURL

C20_UploadNotCounted ==
    \A r \in Slots :
        up[r].kind = "timeout" =>
            /\ ctx[r].deadline
            /\ ~ctx[r].uploading

(* ---------------- principal, health ------------------------------------- *)

\* headers "Bearer <token>" whose token the gate's check accepts
AdmissibleHeaders ==
    { Bearer \o <<" ">> \o Token(n) : n \in MinTokenLen..MaxTokLen }

\* C21: at every point of a request's handling the principal id (key
\* user_id) is in the request context if and only if the Auth Gate has
\* reached Admitted for the request: absent before the gate runs, absent on
\* public-endpoint requests and on rejected ones, and once set it is not
\* changed while the request is handled.
C21_PrincipalIffAdmitted ==
    /\ [](\A r \in Slots :
            /\ "user_id" \in ctx[r].keys <=> gate[r] = "Admitted"
            /\ gate[r] = "Admitted" <=> ctx[r].user_id # <<>>
            /\ gate[r] = "Admitted" =>
                  /\ OnProtectedRoute(r)
                  /\ rq[r].auth \in AdmissibleHeaders
            /\ isPublicEndpoint(rq[r].path) => "user_id" \notin ctx[r].keys)
    /\ [][\A r \in Slots :
            ("user_id" \in ctx[r].keys /\ pc'[r] # "idle") =>
                /\ "user_id" \in ctx'[r].keys
                /\ ctx'[r].user_id = ctx[r].user_id]_vars

\* an admitted request is answered, its principal still in the context;
\* witnessed next to a rejected one by C1 and C3
C21_Witness ==
    \E r \in Slots :
        /\ Done(r)
        /\ gate[r] = "Admitted"
        /\ "user_id" \in ctx[r].keys
        /\ ctx[r].user_id = UserPrefix \o Token(PrincipalPrefixLen)

\* C22: GET /health, when no panic is raised in its handling, is answered
\* 200 with the health report, whatever the Authorization header and
\* whether or not any upstream is reachable; neither the Auth Gate nor an
\* Upstream Proxy runs for it.
C22_HealthAlways200 ==
    \A r \in Slots :
        (rq[r].method = "GET" /\ rq[r].path = HealthPath) =>
            /\ gate[r] = "NotRun"
            /\ out[r] = <<>>
            /\ up[r] = NoReply
            /\ ~HasRun(r, "Auth") /\ ~HasRun(r, "Proxy")
            /\ w[r].status = StatusOK
            /\ (Done(r) /\ fault[r] = "none") =>
                  /\ w[r].written
                  /\ w[r].body = <<HealthBody>>

\* a health request with a malformed Authorization header is answered
C22_Witness ==
    \E r \in Slots :
        /\ Done(r)
        /\ fault[r] = "none"
        /\ rq[r].method = "GET"
        /\ rq[r].path = HealthPath
        /\ rq[r].auth = Bearer
        /\ w[r].body = <<HealthBody>>

(* ---------------- requests do not interfere ------------------------------ *)

\* everything the gateway holds for the request in slot r
SlotState(r) ==
    <<pc[r], rq[r], disp[r], chain[r], idx[r], ctx[r], w[r], gate[r], out[r],
      up[r], logs[r], trace[r], fault[r]>>

\* C23: for any interleaving of concurrently handled requests, a step of one
\* request leaves everything held for the other untouched, every outbound
\* request goes to the Upstream Target its route had at startup, and two
\* requests with the same input and the same upstream reply (no panic
\* raised) get the same status, body and principal id and, when they
\* brought an X-Request-ID, the same X-Request-ID; generated identifiers
\* differ.
C23_NoInterference ==
    /\ [][\E s \in Slots :
            \A r \in Slots \ {s} : SlotState(r)' = SlotState(r)]_vars
    /\ [](\A r \in Slots : \A i \in 1..Len(out[r]) :
            out[r][i].target =
                IF OnProtectedRoute(r) THEN ProductsBaseURL ELSE AuthBaseURL)
    /\ [](\A r, s \in Slots :
            ( /\ Done(r) /\ Done(s)
              /\ fault[r] = "none" /\ fault[s] = "none"
              /\ rq[r] = rq[s]
              /\ up[r] = up[s] ) =>
                /\ w[r].status = w[s].status
                /\ w[r].body = w[s].body
                /\ ctx[r].user_id = ctx[s].user_id
                /\ rq[r].requestID # NoID => w[r].requestID = w[s].requestID
                /\ (rq[r].requestID = NoID /\ r # s) =>
                      w[r].requestID # w[s].requestID)

\* two equal requests, handled side by side, both relayed
C23_Witness ==
    /\ \A r \in Slots :
          /\ Done(r)
          /\ OnProtectedRoute(r)
          /\ gate[r] = "Admitted"
          /\ up[r].kind = "response"
          /\ fault[r] = "none"
    /\ rq[1] = rq[2]
    /\ up[1] = up[2]

(* ---------------- the gateway's routes and the backends' ----------------- *)

\* C24: for every method and path the gateway binds to an Upstream Proxy,
\* the request the proxy emits matches a route the backend registers:
\* register and login reach the auth service's Register and Login handlers,
\* the products routes reach the product service's handlers.
C24_OutboundReachesHandler ==
    \A r \in Slots : \A i \in 1..Len(out[r]) :
        LET o == out[r][i] IN
        IF o.target = AuthBaseURL
        THEN BackendHandlers(AuthServiceRoutes, o.method, o.path) =
                 IF rq[r].path = RegisterPath THEN {<<"AuthHandler.Register">>}
                 ELSE {<<"AuthHandler.Login">>}
        ELSE BackendHandlers(ProductServiceRoutes, o.method, o.path) # {}

(* ---------------- validateToken ------------------------------------------- *)

\* C30: validateToken returns for every token; it accepts exactly the tokens
\* of length at least 10 and returns "user-" followed by the token's first 8
\* characters; it rejects every shorter token, the empty one included, with
\* an Unauthorized error and an empty principal; the principal depends on
\* the token alone, not on the JWT secret.
C30_ValidateToken ==
    /\ \A c \in Callers :
          calls[c].at = "returned" =>
              LET t == calls[c].req.token
                  v == calls[c].resp IN
              IF Len(t) >= 10
              THEN /\ v.err = NoError
                   /\ v.userID = <<"u", "s", "e", "r", "-">> \o SubSeq(t, 1, 8)
              ELSE /\ v.err.isApp
                   /\ v.err.Code = 401
                   /\ v.userID = <<>>
    /\ \A c, d \in Callers :
          ( /\ calls[c].at = "returned"
            /\ calls[d].at = "returned"
            /\ calls[c].req.token = calls[d].req.token ) =>
              calls[c].resp = calls[d].resp

\* one token, accepted under two different secrets
C30_Witness ==
    \E c, d \in Callers :
        /\ calls[c].at = "returned"
        /\ calls[d].at = "returned"
        /\ calls[c].req.token = calls[d].req.token
        /\ calls[c].req.secret # calls[d].req.secret
        /\ Len(calls[c].req.token) = 10
        /\ calls[c].resp.err = NoError
        /\ calls[c].resp.userID = UserPrefix \o SubSeq(calls[c].req.token, 1, 8)

(* ---------------- auth-service: register and login ----------------------- *)

\* the users stored under an email
UsersWith(email) == { u \in users : u.email = email }

\* caller c's Register call ends in this step
RegisterEnds(c) ==
    /\ calls[c].op = "Register"
    /\ calls[c].at # "done"
    /\ calls'[c].at = "done"

\* C25: a Register call for an email that is already stored is answered
\* 409 Conflict with the error "Email already registered", and no user is
\* created or changed.
C25_DuplicateEmailConflict ==
    [][\A c \in Callers :
          ( /\ RegisterEnds(c)
            /\ calls[c].req.bound
            /\ UsersWith(calls[c].req.email) # {} ) =>
              /\ calls'[c].resp.status = 409
              /\ calls'[c].resp.error = "Email already registered"
              /\ users' = users]_vars

LoginRefused(c) ==
    /\ calls[c].op = "Login"
    /\ calls[c].at = "done"
    /\ calls[c].req.bound
    /\ calls[c].resp.status # 200

\* C29: a Login for an unknown email and a Login with a wrong password get
\* the same response, 401 "Invalid credentials"; the response of a successful
\* Register or Login never carries the password hash.
C29_LoginFailuresAlike ==
    /\ \A c, d \in Callers :
          (LoginRefused(c) /\ LoginRefused(d)) => calls[c].resp = calls[d].resp
    /\ \A c \in Callers :
          LoginRefused(c) =>
              /\ calls[c].resp.status = 401
              /\ calls[c].resp.error = "Invalid credentials"
    /\ \A c \in Callers :
          ( /\ calls[c].op \in {"Register", "Login"}
            /\ calls[c].at = "done"
            /\ calls[c].resp.status \in {200, 201} ) =>
              /\ calls[c].resp.user.password_hash = <<>>
              /\ calls[c].resp.user.email = calls[c].req.email
              /\ \A u \in users :
                     u.password_hash \notin
                         {calls[c].resp.token.sub, calls[c].resp.user.id}

\* one login for an email nobody registered, one with a wrong password for a
\* registered email, both refused
C29_Witness ==
    \E c, d \in Callers :
        /\ LoginRefused(c)
        /\ LoginRefused(d)
        /\ calls[c].seen = NoUser
        /\ calls[d].seen # NoUser
        /\ calls[d].req.password # <<>>
        /\ ~VerifyPassword(calls[d].req.password, calls[d].seen.password_hash)

(* ---------------- product-service: update and delete --------------------- *)

\* the stored product with an id; NoProduct when there is none
Stored(table, id) ==
    IF \E p \in table : p.id = id THEN CHOOSE p \in table : p.id = id ELSE NoProduct

\* the value a field has after an update, as the claim has it
Updated(field, old) == IF field = Absent THEN old ELSE field[1]

\* C27: UpdateProduct changes the fields the request supplies and no other:
\* a field the request omits keeps its stored value; id and created_at never
\* change; updated_at is refreshed.
C27_UpdateTouchesSuppliedOnly ==
    [][\A c \in Callers :
          ( /\ calls[c].op = "Update"
            /\ calls[c].at = "UPDATE"
            /\ calls'[c].at = "done"
            /\ calls'[c].resp.status = 200 ) =>
              LET id == calls[c].req.id
                  body == calls[c].req.body
                  old == Stored(products, id)
                  new == Stored(products', id) IN
              /\ new.id = old.id
              /\ new.created_at = old.created_at
              /\ new.updated_at > old.updated_at
              /\ new.name = Updated(body.name, old.name)
              /\ new.description = Updated(body.description, old.description)
              /\ new.price = Updated(body.price, old.price)
              /\ new.category = Updated(body.category, old.category)
              /\ new.stock = Updated(body.stock, old.stock)
              /\ calls'[c].resp.data = new
              /\ \A p \in products : p.id # id => p \in products']_vars

\* caller c's call has been answered; its request was well-formed
Settled(c, op) ==
    /\ calls[c].op = op
    /\ calls[c].at = "done"
    /\ op = "Update" =>
           /\ calls[c].req.body.bound
           /\ ValidUpdate(ShouldBindJSON(calls[c].req.body))

\* C28: however UpdateProduct and DeleteProduct calls on one id interleave,
\* an update returns the updated product or 404 "product not found", a
\* delete succeeds or returns 404, of concurrent deletes exactly one
\* succeeds, and no call on a missing product is answered 500.
C28_UpdateDeleteRace ==
    /\ \A c \in Callers :
          Settled(c, "Update") =>
              \/ /\ calls[c].resp.status = 200
                 /\ calls[c].resp.data.id = calls[c].req.id
              \/ /\ calls[c].resp.status = 404
                 /\ calls[c].resp.error = "Product not found"
    /\ \A c \in Callers :
          Settled(c, "Delete") =>
              \/ calls[c].resp.status = 200
              \/ /\ calls[c].resp.status = 404
                 /\ calls[c].resp.error = "Product not found"
    /\ \A c, d \in Callers :
          ( /\ c # d
            /\ Settled(c, "Delete")
            /\ Settled(d, "Delete")
            /\ calls[c].req.id = calls[d].req.id ) =>
              ~(calls[c].resp.status = 200 /\ calls[d].resp.status = 200)

====
